---- MODULE Spec2Model ----
(***************************************************************************)
(* ThreadSafeDatabase of attendence.py: producer threads put requests on   *)
(* db_queue, one worker thread owns the sqlite connection, executes the    *)
(* requests one at a time and puts one result per request on the single    *)
(* shared result_queue, from which the producers take their answers.       *)
(* AttendanceSystem, the application around it: the UI thread and the       *)
(* recognition thread call it under db_lock; reset_system and quit_window  *)
(* close it.                                                               *)
(***************************************************************************)
EXTENDS Integers, Sequences, FiniteSets, TLC

\* ------------------------------------------------------------------ bounds
MaxReq == 3        \* execute calls issued in one behaviour
MaxDay == 2        \* calendar dates 1..MaxDay
MaxTime == 0       \* times of day 0..MaxTime
MaxFaults == 1     \* sqlite statements that raise in one behaviour
MaxClose == 2      \* close() calls issued in one behaviour
MaxFairReq == 2    \* execute calls issued in one behaviour of the fair specifications
MaxAppReq == 4     \* execute calls issued in one behaviour of the application
MaxReset == 1      \* reset_system runs in one behaviour
MaxFacadeReq == 2  \* execute calls issued in one behaviour of SpecFacade
MaxRestart == 1    \* new runs of the program on the same file in one behaviour
MaxAdminReq == 6   \* execute calls issued in one behaviour of SpecAppAdmin
MaxScenarioReq == 6 \* execute calls issued in one behaviour of SpecScenario
MaxRecordReq == 3  \* execute calls issued in one behaviour of SpecRecords
MaxCameraReq == 4  \* execute calls issued in one behaviour of SpecCamera
MaxGateReq == 4    \* execute calls issued in one behaviour of SpecGate
MaxSession == 1    \* class sessions started in one behaviour
MaxSessionReq == 3 \* execute calls issued in one behaviour of SpecSession
MaxStart == 2      \* class sessions started in one behaviour of SpecToggle
MaxToggleReq == 2  \* execute calls issued in one behaviour of SpecToggle
MaxLoopReq == 4    \* execute calls issued in one behaviour of SpecTwoLoops
MaxIdLen == 3      \* characters typed into the id entry field

Threads == {"T1", "T2"}
Ids == {"101", "102"}

\* ----------------------------------------------------------------- values
NoStr == ""
NoDate == 0        \* date=None of _get_attendance_records

RBool(b) == [kind |-> "bool", b |-> b, s |-> NoStr, rows |-> <<>>]
RName(s) == [kind |-> "str", b |-> FALSE, s |-> s, rows |-> <<>>]
RNone == [kind |-> "none", b |-> FALSE, s |-> NoStr, rows |-> <<>>]
RRows(rows) == [kind |-> "rows", b |-> FALSE, s |-> NoStr, rows |-> rows]
\* one fetchone() row of two columns, the tuple (id, name), held in rows
RRow(i, n) == [kind |-> "row", b |-> FALSE, s |-> NoStr, rows |-> <<i, n>>]
\* an Exception instance; s carries its message
RExc(msg) == [kind |-> "exc", b |-> FALSE, s |-> msg, rows |-> <<>>]

IsException(r) == r.kind = "exc"

\* rid (ghost): the request's number, set when it is put on db_queue
Req(m, sid, n, d, u, p) ==
  [method |-> m, student_id |-> sid, name |-> n, date |-> d, username |-> u, password |-> p, rid |-> 0]

\* the method names _db_worker knows; any other name, such as "bogus", is unknown
Methods ==
  {"add_student", "mark_attendance", "get_student_name", "get_attendance_records",
   "get_all_students", "verify_admin", "change_admin_password"}

STOP == Req("STOP", NoStr, NoStr, NoDate, NoStr, NoStr)

\* ------------------------------------------------------------------ state
VARIABLES
  db_queue,       \* queue.Queue of tasks; a task carries the id of its request (ghost field rid)
  result_queue,   \* queue.Queue of results; an item carries the request it answers (ghost field rid)
  worker,         \* worker_thread: "starting", "running", "dead"
  conn,           \* the worker's connection: "none", "open", "closed"
  txn,            \* the database as the connection sees it (committed plus pending writes)
  disk,           \* the committed database
  now,            \* datetime.datetime.now(): [date, time]
  pc,             \* per producer thread: "idle", "waiting" (in result_queue.get), "joining"
  cur,            \* per producer thread: the request it waits for (0 when none)
  hist,           \* ghost: per request, what was asked, produced and received
                  \* (ahead: the length of db_queue when it was put, stops: the
                  \* 'STOP's put before it, db: the instance it was put on)
  applied,        \* ghost: request ids in the order the worker executed them
  faults,         \* ghost: number of statements that raised so far
  closes,         \* ghost: per producer thread, close() calls issued and returned
                  \* on the instance self.db refers to
  app,            \* AttendanceSystem: its fields and the positions of its threads
  retired         \* the result_queue of every instance reset_system has replaced

vars == <<db_queue, result_queue, worker, conn, txn, disk, now, pc, cur, hist, applied, faults, closes,
          app, retired>>

\* the UI thread (tkinter mainloop) and the recognition thread
UI == "T1"
REC == "T2"

\* one recognizer.predict result: the label, the distance, and (ghost) whether
\* the crop was written to ImagesUnknown, in which class session it was
\* predicted and whether the label was in attendance_sessions then
Face(id, confidence, archived, session, marked) ==
  [id |-> id, confidence |-> confidence, archived |-> archived, session |-> session, marked |-> marked]
NoFace == Face(0, 0, FALSE, 0, FALSE)

\* AttendanceSystem.__init__: nobody holds db_lock, no admin is logged in, the
\* camera is off; db numbers the instance self.db refers to, ref[t] the
\* instance on which thread t called execute last; orphans (ghost): the
\* replaced instances whose connection was open when self.db was
\* reassigned; cap, cap_student, cap_k: the position and the locals of the
\* capture thread.  program: the file that
\* runs, attendence.py (daily mode) or main.py (session mode); seen (ghost):
\* the latest recognition; session (ghost): the class sessions started so far;
\* mon, face, student: per thread, the position and the locals of a
\* _monitor_class_attendance loop; started (ghost): per thread, the session
\* its loop was started for; answered (ghost): the ids for which the gate
\* has had an answer to mark_attendance in the recognition run or class
\* session that runs; reg: the way of one student id from the entry field to
\* the lookup of the gate
NoReg == [step |-> "off", entry |-> <<>>, student_id |-> <<>>, files |-> {}, label |-> 0, key |-> <<>>]

AppInit ==
  [db_lock |-> "free", admin_logged_in |-> FALSE, camera_active |-> FALSE,
   admin_username |-> "admin", date_var |-> 1, ui |-> "idle", k |-> 0, after |-> FALSE,
   rec |-> "off", id |-> 0, student_name |-> NoStr, attendance_marked |-> {},
   db |-> 1, ref |-> [t \in Threads |-> 1], orphans |-> 0,
   cap |-> "off", cap_student |-> <<>>, cap_k |-> 0,
   program |-> "attendence", seen |-> NoFace,
   class_in_session |-> FALSE, attendance_sessions |-> <<>>, session |-> 0,
   mon |-> [t \in Threads |-> "off"], face |-> [t \in Threads |-> NoFace],
   student |-> [t \in Threads |-> <<>>], started |-> [t \in Threads |-> 0],
   answered |-> {}, reg |-> NoReg]

EmptyDb == [students |-> {}, attendance |-> <<>>, admin |-> {}]

Init ==
  /\ db_queue = <<>>
  /\ result_queue = <<>>
  /\ worker = "starting"
  /\ conn = "none"
  /\ txn = EmptyDb
  /\ disk = EmptyDb
  /\ now = [date |-> 1, time |-> 0]
  /\ pc = [t \in Threads |-> "idle"]
  /\ cur = [t \in Threads |-> 0]
  /\ hist = <<>>
  /\ applied = <<>>
  /\ faults = 0
  /\ closes = [t \in Threads |-> [issued |-> 0, returned |-> 0]]
  /\ app = AppInit
  /\ retired = <<>>

\* ------------------------------------------------------------ the handlers
\* A handler yields the set of its possible outcomes: the database as the
\* connection sees it afterwards, the value returned, and whether a statement
\* raised (then result is the exception).  canFail: a statement may raise.
Outcome(db, result, raised) == [db |-> db, result |-> result, raised |-> raised]

SqliteError == RExc("sqlite3.Error")

Stamp(d, t) == [date |-> d, time |-> t]
Null == Stamp(0, 0)

StudentRow(i, n, reg, last) == [id |-> i, name |-> n, registration_date |-> reg, last_attendance |-> last]
\* rid (ghost): the request whose INSERT wrote the row
AttendanceRow(i, n, d, t, rid) == [id |-> i, name |-> n, date |-> d, time |-> t, rid |-> rid]
AdminRow(u, p) == [username |-> u, password |-> p]

Failure(db, canFail) == IF canFail THEN {Outcome(db, SqliteError, TRUE)} ELSE {}

\* the insert as it would be with INSERT OR REPLACE
InsertOrReplaceStudent(students, row) ==
  {r \in students : r.id # row.id} \cup {row}

\* INSERT OR IGNORE INTO students: the PRIMARY KEY id makes the insert a no-op when the id exists
InsertOrIgnoreStudent(students, row) ==
  IF \E r \in students : r.id = row.id THEN students ELSE students \cup {row}

_add_student(db, student_id, name, registration_date, canFail) ==
  LET students == InsertOrIgnoreStudent(db.students, StudentRow(student_id, name, registration_date, Null))
      rowcount == Cardinality(students) - Cardinality(db.students)
  IN  {Outcome([db EXCEPT !.students = students], RBool(rowcount > 0), FALSE)}
      \cup Failure(db, canFail)

\* the check as it would be if it looked at the newest row only
AlreadyMarkedNewestRow(attendance, student_id, date) ==
  /\ Len(attendance) > 0
  /\ attendance[Len(attendance)].id = student_id
  /\ attendance[Len(attendance)].date = date

\* the check as it would be if the SELECT never found a row
AlreadyMarkedNever(attendance, student_id, date) == FALSE

\* the check as it would be without the date in the WHERE clause
AlreadyMarkedAnyDate(attendance, student_id, date) ==
  \E k \in 1..Len(attendance) : attendance[k].id = student_id

\* SELECT 1 FROM attendance WHERE id = ? AND date = ?
AlreadyMarked(attendance, student_id, date) ==
  \E k \in 1..Len(attendance) : attendance[k].id = student_id /\ attendance[k].date = date

\* _mark_attendance as it would be without its UPDATE
UpdateLastAttendanceSkipped(students, student_id, stamp) == students

\* UPDATE students SET last_attendance = ? WHERE id = ?
UpdateLastAttendance(students, student_id, stamp) ==
  {IF r.id = student_id THEN [r EXCEPT !.last_attendance = stamp] ELSE r : r \in students}

\* _mark_attendance as it would be if it replaced the day's row of the id
\* (DELETE, then INSERT) instead of refusing the second mark
_mark_attendance_replacing(db, student_id, name, date, time_str, rid, canFail) ==
  LET others == SelectSeq(db.attendance, LAMBDA r : ~(r.id = student_id /\ r.date = date))
      inserted == [db EXCEPT !.attendance = Append(others, AttendanceRow(student_id, name, date, time_str, rid))]
      updated == [inserted EXCEPT !.students = UpdateLastAttendance(@, student_id, Stamp(date, time_str))]
  IN  {Outcome(updated, RBool(TRUE), FALSE)} \cup Failure(db, canFail)

_mark_attendance(db, student_id, name, date, time_str, rid, canFail) ==
  IF ~AlreadyMarked(db.attendance, student_id, date)
  THEN LET inserted == [db EXCEPT !.attendance = Append(@, AttendanceRow(student_id, name, date, time_str, rid))]
           updated == [inserted EXCEPT !.students = UpdateLastAttendance(@, student_id, Stamp(date, time_str))]
       IN  {Outcome(updated, RBool(TRUE), FALSE)}
           \cup Failure(db, canFail)          \* the SELECT or the INSERT raises
           \cup Failure(inserted, canFail)    \* the UPDATE raises after the INSERT
  ELSE {Outcome(db, RBool(FALSE), FALSE)} \cup Failure(db, canFail)

_get_student_name(db, student_id, canFail) ==
  (IF \E r \in db.students : r.id = student_id
   THEN {Outcome(db, RName(r.name), FALSE) : r \in {q \in db.students : q.id = student_id}}
   ELSE {Outcome(db, RNone, FALSE)})
  \cup Failure(db, canFail)

\* main.py: SELECT id, name FROM students WHERE id = ?; fetchone()
_get_student_by_id(db, student_id, canFail) ==
  (IF \E r \in db.students : r.id = student_id
   THEN {Outcome(db, RRow(r.id, r.name), FALSE) : r \in {q \in db.students : q.id = student_id}}
   ELSE {Outcome(db, RNone, FALSE)})
  \cup Failure(db, canFail)

\* the sequences that list the elements of seq at the positions idx, each
\* once, so that position a comes ahead of position b whenever <<a, b>> is in before
Ordered(seq, idx, before) ==
  {[k \in 1..Cardinality(idx) |-> seq[f[k]]] :
     f \in {g \in [1..Cardinality(idx) -> idx] :
              /\ \A a, b \in 1..Cardinality(idx) : a # b => g[a] # g[b]
              /\ \A a, b \in 1..Cardinality(idx) : a < b => <<g[b], g[a]>> \notin before}}

\* the order as it would be with ORDER BY time ASC
TimeAsc(r, q) == r.time < q.time

TimeDesc(r, q) == r.time > q.time
DateTimeDesc(r, q) == r.date > q.date \/ (r.date = q.date /\ r.time > q.time)

Tuples(rows) == [k \in 1..Len(rows) |-> <<rows[k].id, rows[k].name, rows[k].date, rows[k].time>>]

_get_attendance_records(db, date, canFail) ==
  LET att == db.attendance
      all == 1..Len(att)
      onDate == {k \in all : att[k].date = date}
  IN  (IF date # NoDate
       THEN {Outcome(db, RRows(Tuples(rows)), FALSE) :
               rows \in Ordered(att, onDate, {p \in onDate \X onDate : TimeDesc(att[p[1]], att[p[2]])})}
       ELSE {Outcome(db, RRows(Tuples(rows)), FALSE) :
               rows \in Ordered(att, all, {p \in all \X all : DateTimeDesc(att[p[1]], att[p[2]])})})
      \cup Failure(db, canFail)

\* ORDER BY name: the collation order of the names in use
NameOrder == <<"Ada", "Bob">>
NameRank(n) == CHOOSE k \in 1..Len(NameOrder) : NameOrder[k] = n
NameAsc(r, q) == NameRank(r.name) < NameRank(q.name)

SetToSeqs(S) ==
  {f \in [1..Cardinality(S) -> S] : \A a, b \in 1..Cardinality(S) : a # b => f[a] # f[b]}

_get_all_students(db, canFail) ==
  {Outcome(db, RRows([k \in 1..Len(rows) |-> <<rows[k].id, rows[k].name>>]), FALSE) :
     rows \in {f \in SetToSeqs(db.students) :
                 \A a, b \in 1..Len(f) : a < b => ~NameAsc(f[b], f[a])}}
  \cup Failure(db, canFail)

_verify_admin(db, username, password, canFail) ==
  {Outcome(db, RBool(\E r \in db.admin : r.username = username /\ r.password = password), FALSE)}
  \cup Failure(db, canFail)

\* the UPDATE as it would be without its WHERE clause
_change_admin_password_every_row(db, username, new_password, canFail) ==
  LET admin == {[r EXCEPT !.password = new_password] : r \in db.admin}
  IN  {Outcome([db EXCEPT !.admin = admin], RBool(Cardinality(db.admin) > 0), FALSE)}
      \cup Failure(db, canFail)

_change_admin_password(db, username, new_password, canFail) ==
  LET hit == {r \in db.admin : r.username = username}
      admin == (db.admin \ hit) \cup {[r EXCEPT !.password = new_password] : r \in hit}
  IN  {Outcome([db EXCEPT !.admin = admin], RBool(Cardinality(hit) > 0), FALSE)}
      \cup Failure(db, canFail)

\* the if/elif chain of _db_worker; t1, t2: the two readings of the clock a
\* handler takes.  An unknown method yields a ValueError as the
\* handler's value: it is not raised inside the worker.
Dispatch(db, task, t1, t2, canFail) ==
  IF task.method = "add_student"
    THEN _add_student(db, task.student_id, task.name, t1, canFail)
  ELSE IF task.method = "mark_attendance"
    THEN _mark_attendance(db, task.student_id, task.name, t1.date, t2.time, task.rid, canFail)
  ELSE IF task.method = "get_student_name"
    THEN _get_student_name(db, task.student_id, canFail)
  ELSE IF task.method = "get_student_by_id" /\ app.program = "main"
    THEN _get_student_by_id(db, task.student_id, canFail)
  ELSE IF task.method = "get_attendance_records"
    THEN _get_attendance_records(db, task.date, canFail)
  ELSE IF task.method = "get_all_students"
    THEN _get_all_students(db, canFail)
  ELSE IF task.method = "verify_admin"
    THEN _verify_admin(db, task.username, task.password, canFail)
  ELSE IF task.method = "change_admin_password"
    THEN _change_admin_password(db, task.username, task.password, canFail)
  ELSE {Outcome(db, RExc(task.method), FALSE)}
\* ------------------------------------------------------------- the clock
NextInstant(t) ==
  IF t.time < MaxTime THEN Stamp(t.date, t.time + 1)
  ELSE IF t.date < MaxDay THEN Stamp(t.date + 1, 0)
  ELSE t

Tick ==
  /\ NextInstant(now) # now
  /\ now' = NextInstant(now)
  /\ UNCHANGED <<db_queue, result_queue, worker, conn, txn, disk, pc, cur, hist, applied, faults, closes>>

\* ------------------------------------------------------------ the queues
QueuePut(q, item) == Append(q, item)
\* a get that would take the newest item
QueueGetNewest(q) == [item |-> q[Len(q)], rest |-> SubSeq(q, 1, Len(q) - 1)]

\* queue.Queue.get: the oldest item and the rest
QueueGet(q) == [item |-> Head(q), rest |-> Tail(q)]

\* ------------------------------------------------------------ the worker
\* connect, CREATE TABLE IF NOT EXISTS, seed the default admin, commit
\* the startup as it would be without the INSERT of the default admin
SeedAdminNever(admin) == admin

\* the startup as it would be with INSERT OR REPLACE and no check of the table
SeedAdminAlways(admin) ==
  {r \in admin : r.username # "admin"} \cup {AdminRow("admin", "admin123")}

SeedAdmin(admin) == IF admin = {} THEN {AdminRow("admin", "admin123")} ELSE admin

Worker_startup ==
  /\ worker = "starting"
  /\ worker' = "running"
  /\ conn' = "open"
  /\ txn' = [disk EXCEPT !.admin = SeedAdmin(@)]
  /\ disk' = txn'
  /\ UNCHANGED <<db_queue, result_queue, now, pc, cur, hist, applied, faults, closes>>

Pending == [kind |-> "pending", b |-> FALSE, s |-> NoStr, rows |-> <<>>]

\* the worker as it would be if an exception of a handler escaped the loop
AfterTaskUncaught(raised) == IF raised THEN "dead" ELSE "running"

\* except Exception: the exception is caught inside the loop, which goes on
AfterTask(raised) == "running"

\* one iteration of the loop for a task: dispatch, commit, result_queue.put;
\* an exception of a statement is caught and put instead, and the worker rolls
\* nothing back (sqlite itself may roll the transaction back on some errors)
Worker_task ==
  /\ worker = "running"
  /\ db_queue # <<>>
  /\ LET got == QueueGet(db_queue)
         task == got.item
     IN  /\ task # STOP
         /\ db_queue' = got.rest
         \* _mark_attendance reads the clock twice, the other handlers at most once
         /\ \E t2 \in (IF task.method = "mark_attendance" THEN {now, NextInstant(now)} ELSE {now}) :
            \E o \in Dispatch(txn, task, now, t2, faults < MaxFaults) :
            \E rolledBack \in {FALSE, o.raised} :
              /\ now' = t2
              /\ txn' = IF rolledBack THEN disk ELSE o.db
              /\ disk' = IF o.raised THEN disk ELSE o.db
              /\ faults' = IF o.raised THEN faults + 1 ELSE faults
              /\ result_queue' = QueuePut(result_queue, [val |-> o.result, rid |-> task.rid])
              /\ hist' = [hist EXCEPT ![task.rid].out = o.result,
                                      ![task.rid].failed = IF o.raised THEN "handler" ELSE "no",
                                      ![task.rid].date = now.date,
                                      ![task.rid].ins = Len(o.db.attendance) - Len(txn.attendance)]
              /\ applied' = Append(applied, task.rid)
              /\ worker' = AfterTask(o.raised)
  /\ UNCHANGED <<conn, pc, cur, closes>>

\* the worker as it would be if it left the loop as soon as a 'STOP' is
\* anywhere in db_queue, whatever is queued ahead of it
Worker_stop_eager ==
  /\ worker = "running"
  /\ \E k \in 1..Len(db_queue) :
       /\ db_queue[k] = STOP
       /\ db_queue' = [j \in 1..(Len(db_queue) - 1) |-> IF j < k THEN db_queue[j] ELSE db_queue[j + 1]]
  /\ conn' = "closed"
  /\ txn' = disk
  /\ worker' = "dead"
  /\ UNCHANGED <<result_queue, disk, now, pc, cur, hist, applied, faults, closes>>

\* the 'STOP' sentinel: conn.close() and leave the loop
Worker_stop ==
  /\ worker = "running"
  /\ db_queue # <<>>
  /\ LET got == QueueGet(db_queue)
     IN  /\ got.item = STOP
         /\ db_queue' = got.rest
  /\ conn' = "closed"
  /\ txn' = disk
  /\ worker' = "dead"
  /\ UNCHANGED <<result_queue, disk, now, pc, cur, hist, applied, faults, closes>>

\* ---------------------------------------------------------- the producers
\* the number of 'STOP' sentinels put so far
NumCloses == LET RECURSIVE Sum(_)
                 Sum(S) == IF S = {} THEN 0
                           ELSE LET t == CHOOSE x \in S : TRUE IN closes[t].issued + Sum(S \ {t})
             IN  Sum(Threads)

\* execute, first half: db_queue.put((method, args, kwargs))
execute_put(t, req) ==
  /\ pc[t] = "idle"
  /\ LET rid == Len(hist) + 1
     IN  /\ db_queue' = QueuePut(db_queue, [req EXCEPT !.rid = rid])
         /\ hist' = Append(hist, [thread |-> t, req |-> req, ahead |-> Len(db_queue), out |-> Pending, failed |-> "no", date |-> 0, ins |-> 0,
                                  got |-> Pending, got_rid |-> 0, raised |-> FALSE,
                                  stops |-> NumCloses, db |-> app.db])
         /\ cur' = [cur EXCEPT ![t] = rid]
  /\ pc' = [pc EXCEPT ![t] = "waiting"]
  /\ UNCHANGED <<result_queue, worker, conn, txn, disk, now, applied, faults, closes>>

\* execute, second half: result_queue.get(), raise an Exception, return anything else
execute_get(t) ==
  /\ pc[t] = "waiting"
  /\ result_queue # <<>>
  /\ LET got == QueueGet(result_queue)
     IN  /\ result_queue' = got.rest
         /\ hist' = [hist EXCEPT ![cur[t]].got = got.item.val,
                                 ![cur[t]].got_rid = got.item.rid,
                                 ![cur[t]].raised = IsException(got.item.val)]
  /\ pc' = [pc EXCEPT ![t] = "idle"]
  /\ cur' = [cur EXCEPT ![t] = 0]
  /\ UNCHANGED <<db_queue, worker, conn, txn, disk, now, applied, faults, closes>>

\* close, first half: db_queue.put('STOP')
close_put(t) ==
  /\ pc[t] = "idle"
  /\ NumCloses < MaxClose
  /\ db_queue' = QueuePut(db_queue, STOP)
  /\ pc' = [pc EXCEPT ![t] = "joining"]
  /\ closes' = [closes EXCEPT ![t].issued = @ + 1]
  /\ UNCHANGED <<result_queue, worker, conn, txn, disk, now, cur, hist, applied, faults>>

\* close as it would be if it did not wait for the worker
close_join_nowait(t) ==
  /\ pc[t] = "joining"
  /\ pc' = [pc EXCEPT ![t] = "idle"]
  /\ closes' = [closes EXCEPT ![t].returned = @ + 1]
  /\ UNCHANGED <<db_queue, result_queue, worker, conn, txn, disk, now, cur, hist, applied, faults>>

\* close as it would be if it waited for db_queue to be drained
close_join_drained(t) ==
  /\ pc[t] = "joining"
  /\ worker = "dead"
  /\ db_queue = <<>>
  /\ pc' = [pc EXCEPT ![t] = "idle"]
  /\ closes' = [closes EXCEPT ![t].returned = @ + 1]
  /\ UNCHANGED <<db_queue, result_queue, worker, conn, txn, disk, now, cur, hist, applied, faults>>

\* close, second half: worker_thread.join() returns once the thread has ended
close_join(t) ==
  /\ pc[t] = "joining"
  /\ worker = "dead"
  /\ pc' = [pc EXCEPT ![t] = "idle"]
  /\ closes' = [closes EXCEPT ![t].returned = @ + 1]
  /\ UNCHANGED <<db_queue, result_queue, worker, conn, txn, disk, now, cur, hist, applied, faults>>

\* ---------------------------------------------------- the specifications
\* Spec: two producers call execute with no lock around it; the requests have
\* results of different kinds, a statement may raise.
QueueRequests ==
  {Req("add_student", "101", "Ada", NoDate, NoStr, NoStr),
   Req("verify_admin", NoStr, NoStr, NoDate, "admin", "admin123"),
   Req("bogus", NoStr, NoStr, NoDate, NoStr, NoStr)}

\* the application layer takes no step in the specifications of the facade
NoApp == UNCHANGED <<app, retired>>

Next ==
  \/ Worker_startup /\ NoApp
  \/ Worker_task /\ NoApp
  \/ \E t \in Threads : \E req \in QueueRequests : Len(hist) < MaxReq /\ execute_put(t, req) /\ NoApp
  \/ \E t \in Threads : execute_get(t) /\ NoApp

Spec == Init /\ [][Next]_vars

\* SpecStore: registration and marking of two identities while the clock runs.
\* The worker applies the requests one at a time, so what the store sees is a
\* sequence of requests whatever threads issued them: one producer issues it.
StoreRequests ==
  {Req("add_student", "101", "Ada", NoDate, NoStr, NoStr)}
  \cup {Req("mark_attendance", i, "Ada", NoDate, NoStr, NoStr) : i \in Ids}

NextStore ==
  \/ Tick /\ NoApp
  \/ Worker_startup /\ NoApp
  \/ Worker_task /\ NoApp
  \/ \E req \in StoreRequests : Len(hist) < MaxReq /\ execute_put("T1", req) /\ NoApp
  \/ execute_get("T1") /\ NoApp

SpecStore == Init /\ [][NextStore]_vars

\* SpecScenario: one caller registers 101 twice, marks it, lists today's
\* records, marks it again and lists again, and then starts over
ScenarioStep(n) ==
  LET k == ((n - 1) % 6) + 1
  IN  IF k \in {1, 2} THEN Req("add_student", "101", "Ada", NoDate, NoStr, NoStr)
      ELSE IF k \in {3, 5} THEN Req("mark_attendance", "101", "Ada", NoDate, NoStr, NoStr)
      ELSE Req("get_attendance_records", NoStr, NoStr, now.date, NoStr, NoStr)

NextScenario ==
  \/ Tick /\ NoApp
  \/ Worker_startup /\ NoApp
  \/ Worker_task /\ NoApp
  \/ Len(hist) < MaxScenarioReq /\ execute_put("T1", ScenarioStep(Len(hist) + 1)) /\ NoApp
  \/ execute_get("T1") /\ NoApp

SpecScenario == Init /\ [][NextScenario]_vars

\* SpecRecords: the caller marks and lists on the day after a day on which
\* 101 was marked at time 0 and 102 at time 1
EarlierDay ==
  [students |-> {StudentRow("101", "Ada", Stamp(1, 0), Stamp(1, 0)),
                 StudentRow("102", "Bob", Stamp(1, 0), Stamp(1, 1))},
   attendance |-> <<AttendanceRow("101", "Ada", 1, 0, 0), AttendanceRow("102", "Bob", 1, 1, 0)>>,
   admin |-> {AdminRow("admin", "admin123")}]

InitRecords ==
  /\ db_queue = <<>>
  /\ result_queue = <<>>
  /\ worker = "starting"
  /\ conn = "none"
  /\ txn = EarlierDay
  /\ disk = EarlierDay
  /\ now = [date |-> 2, time |-> 0]
  /\ pc = [t \in Threads |-> "idle"]
  /\ cur = [t \in Threads |-> 0]
  /\ hist = <<>>
  /\ applied = <<>>
  /\ faults = 0
  /\ closes = [t \in Threads |-> [issued |-> 0, returned |-> 0]]
  /\ app = AppInit
  /\ retired = <<>>

RecordRequests ==
  {Req("mark_attendance", "101", "Ada", NoDate, NoStr, NoStr),
   Req("mark_attendance", "102", "Bob", NoDate, NoStr, NoStr)}
  \cup {Req("get_attendance_records", NoStr, NoStr, d, NoStr, NoStr) : d \in {NoDate, 1, 2}}

NextRecords ==
  \/ Worker_startup /\ NoApp
  \/ Worker_task /\ NoApp
  \/ \E req \in RecordRequests : Len(hist) < MaxRecordReq /\ execute_put("T1", req) /\ NoApp
  \/ execute_get("T1") /\ NoApp

SpecRecords == InitRecords /\ [][NextRecords]_vars

\* SpecRegister: registrations of two ids under two names on several days
RegisterRequests ==
  {Req("add_student", "101", "Ada", NoDate, NoStr, NoStr),
   Req("add_student", "101", "Bob", NoDate, NoStr, NoStr),
   Req("add_student", "102", "Bob", NoDate, NoStr, NoStr)}

NextRegister ==
  \/ Tick /\ NoApp
  \/ Worker_startup /\ NoApp
  \/ Worker_task /\ NoApp
  \/ \E req \in RegisterRequests : Len(hist) < MaxReq /\ execute_put("T1", req) /\ NoApp
  \/ execute_get("T1") /\ NoApp

SpecRegister == Init /\ [][NextRegister]_vars

\* SpecFacade: one producer issues a few requests, of every method the worker
\* dispatches and of one it does not know
FacadeRequests ==
  {Req("add_student", "101", "Ada", NoDate, NoStr, NoStr),
   Req("mark_attendance", "101", "Ada", NoDate, NoStr, NoStr),
   Req("get_student_name", "101", NoStr, NoDate, NoStr, NoStr),
   Req("get_attendance_records", NoStr, NoStr, 1, NoStr, NoStr),
   Req("get_attendance_records", NoStr, NoStr, NoDate, NoStr, NoStr),
   Req("get_all_students", NoStr, NoStr, NoDate, NoStr, NoStr),
   Req("verify_admin", NoStr, NoStr, NoDate, "admin", "admin123"),
   Req("change_admin_password", NoStr, NoStr, NoDate, "admin", "secret"),
   Req("bogus", NoStr, NoStr, NoDate, NoStr, NoStr)}

NextFacade ==
  \/ Worker_startup /\ NoApp
  \/ Worker_task /\ NoApp
  \/ \E req \in FacadeRequests : Len(hist) < MaxFacadeReq /\ execute_put("T1", req) /\ NoApp
  \/ execute_get("T1") /\ NoApp

SpecFacade == Init /\ [][NextFacade]_vars

\* SpecAdmin: logins and password changes on a store that lives through a
\* close() and a new run of the program
AdminRequests ==
  {Req("verify_admin", NoStr, NoStr, NoDate, "admin", "admin123"),
   Req("verify_admin", NoStr, NoStr, NoDate, "admin", "secret"),
   Req("change_admin_password", NoStr, NoStr, NoDate, "admin", "secret"),
   Req("change_admin_password", NoStr, NoStr, NoDate, "root", "secret")}

\* the program has ended after close() and is started again: a new
\* ThreadSafeDatabase, with new queues and a new worker, on the file that is there
Restart ==
  /\ worker = "dead"
  /\ \A t \in Threads : pc[t] = "idle"
  /\ app.db <= MaxRestart
  /\ db_queue' = <<>>
  /\ result_queue' = <<>>
  /\ worker' = "starting"
  /\ conn' = "none"
  /\ txn' = disk
  /\ closes' = [t \in Threads |-> [issued |-> 0, returned |-> 0]]
  /\ app' = [AppInit EXCEPT !.db = app.db + 1, !.ref = [t \in Threads |-> app.db + 1]]
  /\ retired' = Append(retired, <<>>)
  /\ UNCHANGED <<disk, now, pc, cur, hist, applied, faults>>

NextAdmin ==
  \/ Worker_startup /\ NoApp
  \/ Worker_task /\ NoApp
  \/ Worker_stop /\ NoApp
  \/ \E req \in AdminRequests : Len(hist) < MaxReq /\ execute_put("T1", req) /\ NoApp
  \/ execute_get("T1") /\ NoApp
  \/ close_put("T1") /\ NoApp
  \/ close_join("T1") /\ NoApp
  \/ Restart

SpecAdmin == Init /\ [][NextAdmin]_vars

\* SpecClose: close() next to execute calls
CloseRequests ==
  {Req("add_student", "101", "Ada", NoDate, NoStr, NoStr),
   Req("bogus", NoStr, NoStr, NoDate, NoStr, NoStr)}

NextClose ==
  \/ Worker_startup /\ NoApp
  \/ Worker_task /\ NoApp
  \/ Worker_stop /\ NoApp
  \/ \E t \in Threads : \E req \in CloseRequests : Len(hist) < MaxReq /\ execute_put(t, req) /\ NoApp
  \/ \E t \in Threads : execute_get(t) /\ NoApp
  \/ \E t \in Threads : close_put(t) /\ NoApp
  \/ \E t \in Threads : close_join(t) /\ NoApp

SpecClose == Init /\ [][NextClose]_vars

\* SpecCloseFair: the worker thread is scheduled whenever it can take a step,
\* and a join on a thread that has ended returns; fewer requests are issued
NextCloseFair ==
  \/ Worker_startup /\ NoApp
  \/ Worker_task /\ NoApp
  \/ Worker_stop /\ NoApp
  \/ \E t \in Threads : \E req \in CloseRequests : Len(hist) < MaxFairReq /\ execute_put(t, req) /\ NoApp
  \/ \E t \in Threads : execute_get(t) /\ NoApp
  \/ \E t \in Threads : close_put(t) /\ NoApp
  \/ \E t \in Threads : close_join(t) /\ NoApp

SpecCloseFair ==
  /\ Init /\ [][NextCloseFair]_vars
  /\ WF_vars(Worker_startup /\ NoApp)
  /\ WF_vars(Worker_task /\ NoApp)
  /\ WF_vars(Worker_stop /\ NoApp)
  /\ \A t \in Threads : WF_vars(close_join(t) /\ NoApp)

\* ---------------------------------------------------- AttendanceSystem
\* str(id) of the label the recognizer predicts
Digit == <<"0", "1", "2", "3", "4", "5", "6", "7", "8", "9">>

RECURSIVE str(_)
str(n) == IF n < 10 THEN Digit[n + 1] ELSE str(n \div 10) \o Digit[(n % 10) + 1]

\* the labels the trained recognizer predicts
Labels == {101, 102}

\* the distances recognizer.predict reports: the two thresholds 50 and 75 and
\* their neighbours
Distances == {49, 50, 75, 76}

\* the truth value Python gives a result in `if result:`
Truthy(r) ==
  \/ r.kind = "bool" /\ r.b
  \/ r.kind = "str" /\ r.s # NoStr
  \/ r.kind = "rows" /\ r.rows # <<>>
  \/ r.kind = "row"

\* the database file an earlier run of the application left: the default
\* admin and one registered student
EarlierRun ==
  [students |-> {StudentRow("101", "Ada", Stamp(1, 0), Null)},
   attendance |-> <<>>,
   admin |-> {AdminRow("admin", "admin123")}]

InitApp ==
  /\ db_queue = <<>>
  /\ result_queue = <<>>
  /\ worker = "starting"
  /\ conn = "none"
  /\ txn = EarlierRun
  /\ disk = EarlierRun
  /\ now = [date |-> 1, time |-> 0]
  /\ pc = [t \in Threads |-> "idle"]
  /\ cur = [t \in Threads |-> 0]
  /\ hist = <<>>
  /\ applied = <<>>
  /\ faults = 0
  /\ closes = [t \in Threads |-> [issued |-> 0, returned |-> 0]]
  /\ app = AppInit
  /\ retired = <<>>

\* the call as it would be outside `with self.db_lock:`
Facade_put_unlocked(t, req) ==
  /\ execute_put(t, req)
  /\ UNCHANGED retired

\* self.db.execute(...), first half, inside `with self.db_lock:`: the lock is
\* taken, self.db is read and the request is put on its db_queue
Facade_put(t, req) ==
  /\ app.db_lock = "free"
  /\ execute_put(t, req)
  /\ UNCHANGED retired

\* a later call inside the same `with self.db_lock:` block
Facade_put_again(t, req) ==
  /\ app.db_lock = t
  /\ execute_put(t, req)
  /\ UNCHANGED retired

\* result_queue.get() on an instance reset_system has replaced meanwhile: the
\* caller still holds the queue of the instance it called
execute_get_retired(t) ==
  /\ pc[t] = "waiting"
  /\ app.ref[t] < app.db
  /\ retired[app.ref[t]] # <<>>
  /\ LET got == QueueGet(retired[app.ref[t]])
     IN  /\ retired' = [retired EXCEPT ![app.ref[t]] = got.rest]
         /\ hist' = [hist EXCEPT ![cur[t]].got = got.item.val,
                                 ![cur[t]].got_rid = got.item.rid,
                                 ![cur[t]].raised = IsException(got.item.val)]
  /\ pc' = [pc EXCEPT ![t] = "idle"]
  /\ cur' = [cur EXCEPT ![t] = 0]
  /\ UNCHANGED <<db_queue, result_queue, worker, conn, txn, disk, now, applied, faults, closes>>

\* self.db.execute(...), second half
Facade_get(t) ==
  \/ app.ref[t] = app.db /\ execute_get(t) /\ UNCHANGED retired
  \/ execute_get_retired(t)

\* the result that Facade_get(t) takes
Answer(t) ==
  IF app.ref[t] = app.db THEN Head(result_queue).val ELSE Head(retired[app.ref[t]]).val

\* the process has not ended
Alive == app.ui # "exited"

\* ---- admin_login: verify_admin under db_lock; the login button is disabled while logged in
UI_admin_login_call ==
  /\ app.ui = "idle"
  /\ ~app.admin_logged_in
  /\ \E password \in {"admin123", "guess"} :
       Facade_put(UI, Req("verify_admin", NoStr, NoStr, NoDate, "admin", password))
  /\ app' = [app EXCEPT !.ui = "admin_login", !.db_lock = UI, !.ref[UI] = app.db]

UI_admin_login_return ==
  /\ app.ui = "admin_login"
  /\ Facade_get(UI)
  /\ app' = [app EXCEPT !.ui = "idle", !.db_lock = "free",
                        !.admin_logged_in = ~IsException(Answer(UI)) /\ Truthy(Answer(UI))]

\* ---- change_admin_password: refused unless admin_logged_in; the new
\* password of admin_username is whatever the field holds, unless it is empty
UI_change_admin_password_call ==
  /\ app.ui = "idle"
  /\ app.admin_logged_in
  /\ \E new_password \in {"secret"} :
       Facade_put(UI, Req("change_admin_password", NoStr, NoStr, NoDate, app.admin_username, new_password))
  /\ app' = [app EXCEPT !.ui = "change_admin_password", !.db_lock = UI, !.ref[UI] = app.db]

UI_change_admin_password_return ==
  /\ app.ui = "change_admin_password"
  /\ Facade_get(UI)
  /\ app' = [app EXCEPT !.ui = "idle", !.db_lock = "free"]

\* ---- reset_system: close() with db_lock not held and the threads not stopped
UI_reset_close ==
  /\ app.ui = "idle"
  /\ app.admin_logged_in
  /\ app.db <= MaxReset
  /\ close_put(UI)
  /\ app' = [app EXCEPT !.ui = "reset_close"]
  /\ UNCHANGED retired

\* reset_system as it would be if close() did not join the worker thread
UI_reset_join_nowait ==
  /\ app.ui = "reset_close"
  /\ close_join_nowait(UI)
  /\ app' = [app EXCEPT !.ui = "reset_replace"]
  /\ UNCHANGED retired

UI_reset_join ==
  /\ app.ui = "reset_close"
  /\ close_join(UI)
  /\ app' = [app EXCEPT !.ui = "reset_replace"]
  /\ UNCHANGED retired

\* os.unlink(STUDENT_DB_PATH); self.db = ThreadSafeDatabase()
UI_reset_replace ==
  /\ app.ui = "reset_replace"
  /\ db_queue' = <<>>
  /\ result_queue' = <<>>
  /\ worker' = "starting"
  /\ conn' = "none"
  /\ txn' = EmptyDb
  /\ disk' = EmptyDb
  /\ closes' = [t \in Threads |-> [issued |-> 0, returned |-> 0]]
  /\ retired' = Append(retired, result_queue)
  /\ app' = [app EXCEPT !.ui = "refresh_attendance", !.db = @ + 1,
                        !.orphans = IF conn = "open" THEN @ + 1 ELSE @]
  /\ UNCHANGED <<now, pc, cur, hist, applied, faults>>

\* ---- refresh_all_data: the refresh button of the admin panel, or a callback
\* a camera thread scheduled with window.after
UI_refresh_all_data ==
  /\ app.ui = "idle"
  /\ app.admin_logged_in \/ app.after
  /\ app' = [app EXCEPT !.ui = "refresh_attendance", !.after = FALSE]
  /\ UNCHANGED <<db_queue, result_queue, worker, conn, txn, disk, now, pc, cur, hist, applied, faults, closes, retired>>

\* refresh_attendance: get_attendance_records(date_var) under db_lock
UI_refresh_attendance_call ==
  /\ app.ui = "refresh_attendance"
  /\ Facade_put(UI, Req("get_attendance_records", NoStr, NoStr, app.date_var, NoStr, NoStr))
  /\ app' = [app EXCEPT !.ui = "refresh_attendance_wait", !.db_lock = UI, !.ref[UI] = app.db]

\* an exception leaves refresh_all_data; reset_system catches it
UI_refresh_attendance_return ==
  /\ app.ui = "refresh_attendance_wait"
  /\ Facade_get(UI)
  /\ app' = [app EXCEPT !.ui = IF IsException(Answer(UI)) THEN "idle" ELSE "update_stats",
                        !.db_lock = "free"]

\* update_stats: three calls inside one `with self.db_lock:` block
StatsRequest(k) ==
  IF k = 1 THEN Req("get_all_students", NoStr, NoStr, NoDate, NoStr, NoStr)
  ELSE IF k = 2 THEN Req("get_attendance_records", NoStr, NoStr, now.date, NoStr, NoStr)
  ELSE Req("get_attendance_records", NoStr, NoStr, NoDate, NoStr, NoStr)

UI_update_stats_call ==
  /\ app.ui = "update_stats"
  /\ Facade_put(UI, StatsRequest(1))
  /\ app' = [app EXCEPT !.ui = "update_stats_wait", !.k = 1, !.db_lock = UI, !.ref[UI] = app.db]

\* the result of the k-th call; an exception is caught by update_stats
UI_update_stats_return ==
  /\ app.ui = "update_stats_wait"
  /\ Facade_get(UI)
  /\ app' = IF IsException(Answer(UI)) \/ app.k = 3
            THEN [app EXCEPT !.ui = "idle", !.k = 0, !.db_lock = "free"]
            ELSE [app EXCEPT !.ui = "update_stats_next"]

UI_update_stats_next ==
  /\ app.ui = "update_stats_next"
  /\ Facade_put_again(UI, StatsRequest(app.k + 1))
  /\ app' = [app EXCEPT !.ui = "update_stats_wait", !.k = @ + 1, !.ref[UI] = app.db]

\* track_images as it would be without the test of camera_active
UI_track_images_unguarded ==
  /\ app.ui = "idle"
  /\ app' = [app EXCEPT !.camera_active = TRUE, !.rec = "loop", !.attendance_marked = {}]
  /\ UNCHANGED <<db_queue, result_queue, worker, conn, txn, disk, now, pc, cur, hist, applied, faults, closes, retired>>

\* ---- track_images: start the recognition thread unless the camera is in use
UI_track_images ==
  /\ app.ui = "idle"
  /\ ~app.camera_active
  /\ app' = [app EXCEPT !.camera_active = TRUE, !.rec = "loop", !.attendance_marked = {},
                        !.answered = {}]
  /\ UNCHANGED <<db_queue, result_queue, worker, conn, txn, disk, now, pc, cur, hist, applied, faults, closes, retired>>

\* ---- quit_window: camera_active = False, join the camera threads for at most
\* a second each, close the database, destroy the window
UI_quit_window ==
  /\ app.ui = "idle"
  /\ app' = [app EXCEPT !.ui = "quit_join", !.camera_active = FALSE]
  /\ UNCHANGED <<db_queue, result_queue, worker, conn, txn, disk, now, pc, cur, hist, applied, faults, closes, retired>>

\* join(timeout=1) returns: the thread has ended or the second has passed
UI_quit_close ==
  /\ app.ui = "quit_join"
  /\ close_put(UI)
  /\ app' = [app EXCEPT !.ui = "quit_close"]
  /\ UNCHANGED retired

UI_quit_exit ==
  /\ app.ui = "quit_close"
  /\ close_join(UI)
  /\ app' = [app EXCEPT !.ui = "exited"]
  /\ UNCHANGED retired

\* ---- _track_images_thread: one face with confidence < 50
Rec_get_student_name_call ==
  /\ Alive
  /\ app.rec = "loop"
  /\ app.camera_active
  /\ \E id \in Labels, confidence \in {d \in Distances : d < 50} :
       /\ Facade_put(REC, Req("get_student_name", str(id), NoStr, NoDate, NoStr, NoStr))
       /\ app' = [app EXCEPT !.rec = "get_student_name", !.id = id, !.db_lock = REC, !.ref[REC] = app.db,
                             !.seen = Face(id, confidence, FALSE, 0, FALSE)]

\* one face with confidence >= 50: "Unknown"; above 75 the crop is written
\* to ImagesUnknown
Rec_unknown ==
  /\ Alive
  /\ app.rec = "loop"
  /\ app.camera_active
  /\ \E id \in Labels, confidence \in {d \in Distances : ~(d < 50)} :
       app' = [app EXCEPT !.seen = Face(id, confidence, confidence > 75, 0, FALSE)]
  /\ UNCHANGED <<db_queue, result_queue, worker, conn, txn, disk, now, pc, cur, hist, applied, faults, closes, retired>>

\* finally: of the thread
ThreadEnds(a) == [a EXCEPT !.rec = "off", !.camera_active = FALSE, !.after = TRUE]

\* the return as it would be without `if student_name:`
Rec_get_student_name_return_absent ==
  /\ Alive
  /\ app.rec = "get_student_name"
  /\ Facade_get(REC)
  /\ app' = IF IsException(Answer(REC))
              THEN ThreadEnds([app EXCEPT !.db_lock = "free"])
            ELSE IF app.id \notin app.attendance_marked
              THEN [app EXCEPT !.rec = "mark_attendance", !.db_lock = "free", !.student_name = Answer(REC).s]
            ELSE [app EXCEPT !.rec = "loop", !.db_lock = "free"]

Rec_get_student_name_return ==
  /\ Alive
  /\ app.rec = "get_student_name"
  /\ Facade_get(REC)
  /\ app' = IF IsException(Answer(REC))
              THEN ThreadEnds([app EXCEPT !.db_lock = "free"])
            ELSE IF Truthy(Answer(REC)) /\ app.id \notin app.attendance_marked
              THEN [app EXCEPT !.rec = "mark_attendance", !.db_lock = "free", !.student_name = Answer(REC).s]
            ELSE [app EXCEPT !.rec = "loop", !.db_lock = "free"]

Rec_mark_attendance_call ==
  /\ Alive
  /\ app.rec = "mark_attendance"
  /\ Facade_put(REC, Req("mark_attendance", str(app.id), app.student_name, NoDate, NoStr, NoStr))
  /\ app' = [app EXCEPT !.rec = "mark_attendance_wait", !.db_lock = REC, !.ref[REC] = app.db]

\* if marked: attendance_marked.add(id), and the refresh callbacks are scheduled
Rec_mark_attendance_return ==
  /\ Alive
  /\ app.rec = "mark_attendance_wait"
  /\ Facade_get(REC)
  /\ app' = IF IsException(Answer(REC))
              THEN ThreadEnds([app EXCEPT !.db_lock = "free"])
            ELSE IF Truthy(Answer(REC))
              THEN [app EXCEPT !.rec = "loop", !.db_lock = "free", !.after = TRUE,
                               !.attendance_marked = @ \cup {app.id},
                               !.answered = @ \cup {str(app.id)}]
            ELSE [app EXCEPT !.rec = "loop", !.db_lock = "free", !.answered = @ \cup {str(app.id)}]

\* the loop ends: camera_active is false, or 'q' was pressed
Rec_end ==
  /\ Alive
  /\ app.rec = "loop"
  /\ app' = ThreadEnds(app)
  /\ UNCHANGED <<db_queue, result_queue, worker, conn, txn, disk, now, pc, cur, hist, applied, faults, closes, retired>>

\* SpecApp: the application's UI thread and recognition thread on the store
\* an earlier run left
NextApp ==
  \/ Worker_startup /\ NoApp
  \/ Worker_task /\ NoApp
  \/ Worker_stop /\ NoApp
  \/ Len(hist) < MaxAppReq /\ UI_admin_login_call
  \/ UI_admin_login_return
  \/ UI_reset_close
  \/ UI_reset_join
  \/ UI_reset_replace
  \/ UI_refresh_all_data
  \/ Len(hist) < MaxAppReq /\ UI_refresh_attendance_call
  \/ UI_refresh_attendance_return
  \/ Len(hist) < MaxAppReq /\ UI_update_stats_call
  \/ UI_update_stats_return
  \/ Len(hist) < MaxAppReq /\ UI_update_stats_next
  \/ UI_track_images
  \/ UI_quit_window
  \/ UI_quit_close
  \/ UI_quit_exit
  \/ Len(hist) < MaxAppReq /\ Rec_get_student_name_call
  \/ Rec_get_student_name_return
  \/ Len(hist) < MaxAppReq /\ Rec_mark_attendance_call
  \/ Rec_mark_attendance_return
  \/ Rec_end

SpecApp == InitApp /\ [][NextApp]_vars

\* SpecAppAdmin: the admin panel alone, no camera thread: login, password
\* change and reset_system
NextAppAdmin ==
  \/ Worker_startup /\ NoApp
  \/ Worker_task /\ NoApp
  \/ Worker_stop /\ NoApp
  \/ Len(hist) < MaxAdminReq /\ UI_admin_login_call
  \/ UI_admin_login_return
  \/ Len(hist) < MaxAdminReq /\ UI_change_admin_password_call
  \/ UI_change_admin_password_return
  \/ UI_reset_close
  \/ UI_reset_join
  \/ UI_reset_replace
  \/ Len(hist) < MaxAdminReq /\ UI_refresh_attendance_call
  \/ UI_refresh_attendance_return
  \/ Len(hist) < MaxAdminReq /\ UI_update_stats_call
  \/ UI_update_stats_return
  \/ Len(hist) < MaxAdminReq /\ UI_update_stats_next

SpecAppAdmin == InitApp /\ [][NextAppAdmin]_vars

\* ---- take_images: start the capture thread unless the camera is in use; the
\* id is numeric and the name alphabetic
CAP == REC    \* the capture thread takes the place of the recognition thread

UI_take_images ==
  /\ app.ui = "idle"
  /\ ~app.camera_active
  /\ \E student \in {<<"101", "Ada">>, <<"102", "Bob">>} :
       app' = [app EXCEPT !.camera_active = TRUE, !.cap = "loop", !.cap_student = student]
  /\ UNCHANGED <<db_queue, result_queue, worker, conn, txn, disk, now, pc, cur, hist, applied, faults, closes, retired>>

\* finally: of _capture_images
CaptureEnds(a) == [a EXCEPT !.cap = "off", !.camera_active = FALSE, !.cap_k = 0]

\* the loop ends with fewer than 30 samples ('q', camera_active false), or
\* the camera or the cascade raises
Cap_cancel ==
  /\ Alive
  /\ app.cap = "loop"
  /\ app' = CaptureEnds(app)
  /\ UNCHANGED <<db_queue, result_queue, worker, conn, txn, disk, now, pc, cur, hist, applied, faults, closes, retired>>

\* 30 samples are taken: add_student under db_lock
Cap_add_student_call ==
  /\ Alive
  /\ app.cap = "loop"
  /\ Facade_put(CAP, Req("add_student", app.cap_student[1], app.cap_student[2], NoDate, NoStr, NoStr))
  /\ app' = [app EXCEPT !.cap = "add_student", !.db_lock = CAP, !.ref[CAP] = app.db]

\* if success: self.refresh_all_data(), called by the capture thread itself
Cap_add_student_return ==
  /\ Alive
  /\ app.cap = "add_student"
  /\ Facade_get(CAP)
  /\ app' = IF ~IsException(Answer(CAP)) /\ Truthy(Answer(CAP))
              THEN [app EXCEPT !.cap = "refresh_attendance", !.db_lock = "free"]
            ELSE CaptureEnds([app EXCEPT !.db_lock = "free"])

Cap_refresh_attendance_call ==
  /\ Alive
  /\ app.cap = "refresh_attendance"
  /\ Facade_put(CAP, Req("get_attendance_records", NoStr, NoStr, app.date_var, NoStr, NoStr))
  /\ app' = [app EXCEPT !.cap = "refresh_attendance_wait", !.db_lock = CAP, !.ref[CAP] = app.db]

Cap_refresh_attendance_return ==
  /\ Alive
  /\ app.cap = "refresh_attendance_wait"
  /\ Facade_get(CAP)
  /\ app' = IF IsException(Answer(CAP))
              THEN CaptureEnds([app EXCEPT !.db_lock = "free"])
            ELSE [app EXCEPT !.cap = "update_stats", !.db_lock = "free"]

Cap_update_stats_call ==
  /\ Alive
  /\ app.cap = "update_stats"
  /\ Facade_put(CAP, StatsRequest(1))
  /\ app' = [app EXCEPT !.cap = "update_stats_wait", !.cap_k = 1, !.db_lock = CAP, !.ref[CAP] = app.db]

Cap_update_stats_return ==
  /\ Alive
  /\ app.cap = "update_stats_wait"
  /\ Facade_get(CAP)
  /\ app' = IF IsException(Answer(CAP)) \/ app.cap_k = 3
            THEN CaptureEnds([app EXCEPT !.db_lock = "free"])
            ELSE [app EXCEPT !.cap = "update_stats_next"]

Cap_update_stats_next ==
  /\ Alive
  /\ app.cap = "update_stats_next"
  /\ Facade_put_again(CAP, StatsRequest(app.cap_k + 1))
  /\ app' = [app EXCEPT !.cap = "update_stats_wait", !.cap_k = @ + 1, !.ref[CAP] = app.db]

\* SpecCamera: daily mode without the admin panel: registration, recognition
\* and the refreshes they cause
NextCamera ==
  \/ Worker_startup /\ NoApp
  \/ Worker_task /\ NoApp
  \/ UI_take_images
  \/ Cap_cancel
  \/ Len(hist) < MaxCameraReq /\ Cap_add_student_call
  \/ Cap_add_student_return
  \/ Len(hist) < MaxCameraReq /\ Cap_refresh_attendance_call
  \/ Cap_refresh_attendance_return
  \/ Len(hist) < MaxCameraReq /\ Cap_update_stats_call
  \/ Cap_update_stats_return
  \/ Len(hist) < MaxCameraReq /\ Cap_update_stats_next
  \/ UI_track_images
  \/ Len(hist) < MaxCameraReq /\ Rec_get_student_name_call
  \/ Rec_get_student_name_return
  \/ Len(hist) < MaxCameraReq /\ Rec_mark_attendance_call
  \/ Rec_mark_attendance_return
  \/ Rec_end
  \/ UI_refresh_all_data
  \/ Len(hist) < MaxCameraReq /\ UI_refresh_attendance_call
  \/ UI_refresh_attendance_return
  \/ Len(hist) < MaxCameraReq /\ UI_update_stats_call
  \/ UI_update_stats_return
  \/ Len(hist) < MaxCameraReq /\ UI_update_stats_next

SpecCamera == InitApp /\ [][NextCamera]_vars

\* ---- main.py, session mode.  toggle_class_session: stop the session that
\* runs, or start one: reset attendance_sessions and start a thread on
\* _monitor_class_attendance (t: the new thread, one of slots; starts: the
\* sessions a behaviour may start)
Range(seq) == {seq[i] : i \in 1..Len(seq)}

UI_toggle_class_session_on(slots, starts) ==
  /\ app.program = "main"
  /\ \/ /\ app.class_in_session
        /\ app' = [app EXCEPT !.class_in_session = FALSE]
     \/ /\ ~app.class_in_session
        /\ app.session < starts
        /\ \E t \in slots :
             /\ app.mon[t] = "off"
             /\ pc[t] = "idle"
             /\ app' = [app EXCEPT !.class_in_session = TRUE, !.attendance_sessions = <<>>,
                                   !.answered = {},
                                   !.session = @ + 1, !.mon[t] = "starting",
                                   !.started[t] = app.session + 1]
  /\ UNCHANGED <<db_queue, result_queue, worker, conn, txn, disk, now, pc, cur, hist, applied, faults, closes, retired>>

UI_toggle_class_session == UI_toggle_class_session_on(Threads, MaxSession)

\* _monitor_class_attendance up to the loop: the cascade is empty or the
\* camera does not open and the thread returns, class_in_session untouched;
\* or the loop is entered
Mon_open(t) ==
  /\ app.mon[t] = "starting"
  /\ \E opened \in BOOLEAN :
       app' = [app EXCEPT !.mon[t] = IF opened THEN "loop" ELSE "off"]
  /\ UNCHANGED <<db_queue, result_queue, worker, conn, txn, disk, now, pc, cur, hist, applied, faults, closes, retired>>

\* while self.class_in_session and time.time() < end_time: holds, and it is
\* time for a capture
Mon_iterate(t) ==
  /\ app.mon[t] = "loop"
  /\ app.class_in_session
  /\ app' = [app EXCEPT !.mon[t] = "frame"]
  /\ UNCHANGED <<db_queue, result_queue, worker, conn, txn, disk, now, pc, cur, hist, applied, faults, closes, retired>>

\* the while condition fails: the session was stopped, or end_time has passed
Mon_exit(t) ==
  /\ app.mon[t] = "loop"
  /\ app' = [app EXCEPT !.mon[t] = "cleanup"]
  /\ UNCHANGED <<db_queue, result_queue, worker, conn, txn, disk, now, pc, cur, hist, applied, faults, closes, retired>>

\* cam.release(); if self.class_in_session: self.class_in_session = False
Mon_cleanup(t) ==
  /\ app.mon[t] = "cleanup"
  /\ app' = [app EXCEPT !.mon[t] = "off", !.class_in_session = FALSE]
  /\ UNCHANGED <<db_queue, result_queue, worker, conn, txn, disk, now, pc, cur, hist, applied, faults, closes, retired>>

\* the frame shows one face with confidence >= 50: nothing is done with it
Mon_skip(t) ==
  /\ app.mon[t] = "frame"
  /\ \E id \in Labels, confidence \in {d \in Distances : ~(d < 50)} :
       app' = [app EXCEPT !.mon[t] = "loop",
                          !.seen = Face(id, confidence, FALSE, 0, FALSE)]
  /\ UNCHANGED <<db_queue, result_queue, worker, conn, txn, disk, now, pc, cur, hist, applied, faults, closes, retired>>

\* the frame shows one face with confidence < 50: get_student_by_id(str(id))
\* under db_lock
Mon_get_student_by_id_call(t) ==
  /\ app.mon[t] = "frame"
  /\ \E id \in Labels, confidence \in {d \in Distances : d < 50} :
       /\ Facade_put(t, Req("get_student_by_id", str(id), NoStr, NoDate, NoStr, NoStr))
       /\ LET f == Face(id, confidence, FALSE, app.session, str(id) \in Range(app.attendance_sessions))
          IN  app' = [app EXCEPT !.mon[t] = "get_student_by_id", !.face[t] = f,
                                 !.seen = Face(id, confidence, FALSE, 0, FALSE),
                                 !.db_lock = t, !.ref[t] = app.db]

\* the return as it would be without the membership test on attendance_sessions
Mon_get_student_by_id_return_unchecked(t) ==
  /\ app.mon[t] = "get_student_by_id"
  /\ Facade_get(t)
  /\ app' = IF IsException(Answer(t)) \/ (Truthy(Answer(t)) /\ Answer(t).kind # "row")
              THEN [app EXCEPT !.mon[t] = "off", !.db_lock = "free"]
            ELSE IF Truthy(Answer(t))
              THEN [app EXCEPT !.mon[t] = "mark_attendance", !.db_lock = "free", !.student[t] = Answer(t).rows]
            ELSE [app EXCEPT !.mon[t] = "loop", !.db_lock = "free"]

\* an exception ends the thread (the function has no try); `student_id,
\* student_name = student` needs the tuple; the membership test on
\* attendance_sessions decides whether mark_attendance is called
Mon_get_student_by_id_return(t) ==
  /\ app.mon[t] = "get_student_by_id"
  /\ Facade_get(t)
  /\ app' = IF IsException(Answer(t)) \/ (Truthy(Answer(t)) /\ Answer(t).kind # "row")
              THEN [app EXCEPT !.mon[t] = "off", !.db_lock = "free"]
            ELSE IF Truthy(Answer(t)) /\ Answer(t).rows[1] \notin Range(app.attendance_sessions)
              THEN [app EXCEPT !.mon[t] = "mark_attendance", !.db_lock = "free", !.student[t] = Answer(t).rows]
            ELSE [app EXCEPT !.mon[t] = "loop", !.db_lock = "free"]

Mon_mark_attendance_call(t) ==
  /\ app.mon[t] = "mark_attendance"
  /\ Facade_put(t, Req("mark_attendance", app.student[t][1], app.student[t][2], NoDate, NoStr, NoStr))
  /\ app' = [app EXCEPT !.mon[t] = "mark_attendance_wait", !.db_lock = t, !.ref[t] = app.db]

\* if marked: self.attendance_sessions.append(student_id)
Mon_mark_attendance_return(t) ==
  /\ app.mon[t] = "mark_attendance_wait"
  /\ Facade_get(t)
  /\ app' = IF IsException(Answer(t))
              THEN [app EXCEPT !.mon[t] = "off", !.db_lock = "free"]
            ELSE IF Truthy(Answer(t))
              THEN [app EXCEPT !.mon[t] = "loop", !.db_lock = "free", !.after = TRUE,
                               !.attendance_sessions = Append(@, app.student[t][1]),
                               !.answered = @ \cup {app.student[t][1]}]
            ELSE [app EXCEPT !.mon[t] = "loop", !.db_lock = "free",
                             !.answered = @ \cup {app.student[t][1]}]

\* a call of mark_attendance that does not pass the gate, from a thread t
\* that runs no loop
Direct_mark_attendance_call(t) ==
  /\ app.program = "main"
  /\ app.mon[t] = "off"
  /\ Facade_put(t, Req("mark_attendance", "101", "Ada", NoDate, NoStr, NoStr))
  /\ app' = [app EXCEPT !.mon[t] = "direct", !.db_lock = t, !.ref[t] = app.db]

Direct_mark_attendance_return(t) ==
  /\ app.mon[t] = "direct"
  /\ Facade_get(t)
  /\ app' = [app EXCEPT !.mon[t] = "off", !.db_lock = "free"]

\* SpecGate: the admission gate of either program on the store an earlier run
\* left: the recognition thread of attendence.py, or the class sessions of
\* main.py
InitGate ==
  /\ db_queue = <<>>
  /\ result_queue = <<>>
  /\ worker = "starting"
  /\ conn = "none"
  /\ txn = EarlierRun
  /\ disk = EarlierRun
  /\ now = [date |-> 1, time |-> 0]
  /\ pc = [t \in Threads |-> "idle"]
  /\ cur = [t \in Threads |-> 0]
  /\ hist = <<>>
  /\ applied = <<>>
  /\ faults = 0
  /\ closes = [t \in Threads |-> [issued |-> 0, returned |-> 0]]
  /\ \E program \in {"attendence", "main"} : app = [AppInit EXCEPT !.program = program]
  /\ retired = <<>>

\* SpecGateAgain: the admission gate on a day on which 101 has been marked
\* already, by an earlier recognition run
EarlierToday ==
  [students |-> {StudentRow("101", "Ada", Stamp(1, 0), Stamp(1, 0))},
   attendance |-> <<AttendanceRow("101", "Ada", 1, 0, 0)>>,
   admin |-> {AdminRow("admin", "admin123")}]

InitGateAgain ==
  /\ db_queue = <<>>
  /\ result_queue = <<>>
  /\ worker = "starting"
  /\ conn = "none"
  /\ txn = EarlierToday
  /\ disk = EarlierToday
  /\ now = [date |-> 1, time |-> 0]
  /\ pc = [t \in Threads |-> "idle"]
  /\ cur = [t \in Threads |-> 0]
  /\ hist = <<>>
  /\ applied = <<>>
  /\ faults = 0
  /\ closes = [t \in Threads |-> [issued |-> 0, returned |-> 0]]
  /\ \E program \in {"attendence", "main"} : app = [AppInit EXCEPT !.program = program]
  /\ retired = <<>>

NextGate ==
  \/ Worker_startup /\ NoApp
  \/ Worker_task /\ NoApp
  \/ app.program = "attendence" /\ UI_track_images
  \/ Len(hist) < MaxGateReq /\ Rec_get_student_name_call
  \/ Rec_get_student_name_return
  \/ Len(hist) < MaxGateReq /\ Rec_mark_attendance_call
  \/ Rec_mark_attendance_return
  \/ Rec_unknown
  \/ Rec_end
  \/ UI_toggle_class_session_on({REC}, MaxSession)
  \/ Mon_open(REC)
  \/ Mon_iterate(REC)
  \/ Mon_exit(REC)
  \/ Mon_cleanup(REC)
  \/ Mon_skip(REC)
  \/ Len(hist) < MaxGateReq /\ Mon_get_student_by_id_call(REC)
  \/ Mon_get_student_by_id_return(REC)
  \/ Len(hist) < MaxGateReq /\ Mon_mark_attendance_call(REC)
  \/ Mon_mark_attendance_return(REC)

SpecGate == InitGate /\ [][NextGate]_vars

SpecGateAgain == InitGateAgain /\ [][NextGate]_vars

\* SpecSession: main.py alone: the session button, the sampling loops it
\* starts, and direct mark_attendance calls; a face with confidence >= 50
\* changes nothing and is left out
InitSession == InitGate /\ app.program = "main"

NextSession ==
  \/ Worker_startup /\ NoApp
  \/ Worker_task /\ NoApp
  \/ UI_toggle_class_session
  \/ \E t \in Threads :
       \/ Mon_open(t)
       \/ Mon_iterate(t)
       \/ Mon_exit(t)
       \/ Mon_cleanup(t)
       \/ Len(hist) < MaxSessionReq /\ Mon_get_student_by_id_call(t)
       \/ Mon_get_student_by_id_return(t)
       \/ Len(hist) < MaxSessionReq /\ Mon_mark_attendance_call(t)
       \/ Mon_mark_attendance_return(t)
  \/ Len(hist) < MaxSessionReq /\ Direct_mark_attendance_call(UI)
  \/ Direct_mark_attendance_return(UI)

SpecSession == InitSession /\ [][NextSession]_vars

\* SpecToggle: main.py, the session button pressed again and again, and the
\* loops it starts
NextToggle ==
  \/ Worker_startup /\ NoApp
  \/ Worker_task /\ NoApp
  \/ UI_toggle_class_session_on(Threads, MaxStart)
  \/ \E t \in Threads :
       \/ Mon_open(t)
       \/ Mon_iterate(t)
       \/ Mon_exit(t)
       \/ Mon_cleanup(t)
       \/ Mon_skip(t)
       \/ Len(hist) < MaxToggleReq /\ Mon_get_student_by_id_call(t)
       \/ Mon_get_student_by_id_return(t)
       \/ Len(hist) < MaxToggleReq /\ Mon_mark_attendance_call(t)
       \/ Mon_mark_attendance_return(t)

SpecToggle == InitSession /\ [][NextToggle]_vars

\* SpecTwoLoops: the class session over a change of the calendar date, with
\* as many requests as two monitoring loops need to mark one student each
NextTwoLoops ==
  \/ Tick /\ NoApp
  \/ Worker_startup /\ NoApp
  \/ Worker_task /\ NoApp
  \/ UI_toggle_class_session_on(Threads, MaxStart)
  \/ \E t \in Threads :
       \/ Mon_open(t)
       \/ Mon_iterate(t)
       \/ Mon_exit(t)
       \/ Mon_cleanup(t)
       \/ Len(hist) < MaxLoopReq /\ Mon_get_student_by_id_call(t)
       \/ Mon_get_student_by_id_return(t)
       \/ Len(hist) < MaxLoopReq /\ Mon_mark_attendance_call(t)
       \/ Mon_mark_attendance_return(t)

SpecTwoLoops == InitSession /\ [][NextTwoLoops]_vars

\* ------------------------------------------------- the student id as text
\* A str is a sequence of characters here, so that its characters can be
\* looked at.
Chars == {"0", "7", "a", " "}

RECURSIVE TextsOfLen(_)
TextsOfLen(n) ==
  IF n = 0 THEN {<<>>} ELSE {Append(s, c) : s \in TextsOfLen(n - 1), c \in Chars}

\* what can stand in the id entry field
Entries == UNION {TextsOfLen(n) : n \in 0..MaxIdLen}

\* str.strip()
RECURSIVE strip(_)
strip(s) ==
  IF s = <<>> THEN s
  ELSE IF s[1] = " " THEN strip(Tail(s))
  ELSE IF s[Len(s)] = " " THEN strip(SubSeq(s, 1, Len(s) - 1))
  ELSE s

\* str.isdigit(): not empty and decimal digits only
isdigit(s) == s # <<>> /\ \A i \in 1..Len(s) : s[i] \in Range(Digit)

DigitValue(c) == CHOOSE n \in 0..9 : Digit[n + 1] = c

\* int(s) of a string of digits
RECURSIVE int(_)
int(s) == IF s = <<>> THEN 0 ELSE int(SubSeq(s, 1, Len(s) - 1)) * 10 + DigitValue(s[Len(s)])

\* str(n) as a sequence of characters
RECURSIVE str_chars(_)
str_chars(n) ==
  IF n < 10 THEN <<Digit[n + 1]>> ELSE Append(str_chars(n \div 10), Digit[(n % 10) + 1])

\* str.split(sep)
RECURSIVE split(_, _)
split(s, sep) ==
  IF \E i \in 1..Len(s) : s[i] = sep
    THEN LET i == CHOOSE k \in 1..Len(s) : s[k] = sep /\ \A j \in 1..(k - 1) : s[j] # sep
         IN  <<SubSeq(s, 1, i - 1)>> \o split(SubSeq(s, i + 1, Len(s)), sep)
    ELSE <<s>>

\* f"{name}.{student_id}.{sample_num}.jpg"
ImagePath(name, student_id, sample_num) ==
  name \o <<".">> \o student_id \o <<".">> \o str_chars(sample_num) \o <<".", "j", "p", "g">>

RegName == <<"A", "d", "a">>
required_samples == 30

RegUnchanged ==
  UNCHANGED <<db_queue, result_queue, worker, conn, now, pc, cur, hist, applied, faults, closes, retired>>

\* take_images: the entry is stripped and validated
Reg_take_images ==
  /\ app.reg.step = "typed"
  /\ LET student_id == strip(app.reg.entry)
     IN  app' = IF student_id = <<>> \/ ~isdigit(student_id)
                  THEN [app EXCEPT !.reg.step = "rejected"]
                ELSE [app EXCEPT !.reg.step = "capture", !.reg.student_id = student_id]
  /\ UNCHANGED <<txn, disk>>
  /\ RegUnchanged

\* _capture_images: the samples are written, then add_student stores the id
Reg_capture_images ==
  /\ app.reg.step = "capture"
  /\ \E o \in _add_student(disk, app.reg.student_id, "Ada", Stamp(now.date, now.time), FALSE) :
       /\ txn' = o.db
       /\ disk' = o.db
  /\ app' = [app EXCEPT !.reg.step = "registered",
                        !.reg.files = {ImagePath(RegName, app.reg.student_id, n) : n \in {1, required_samples}}]
  /\ RegUnchanged

\* get_images_and_labels: the label of a sample is int() of the second field
\* of its file name
Reg_get_images_and_labels ==
  /\ app.reg.step = "registered"
  /\ \E image_path \in app.reg.files :
       LET id_str == split(image_path, ".")[2]
       IN  app' = IF ~isdigit(id_str)
                    THEN [app EXCEPT !.reg.step = "untrained"]
                  ELSE [app EXCEPT !.reg.step = "trained", !.reg.label = int(id_str)]
  /\ UNCHANGED <<txn, disk>>
  /\ RegUnchanged

\* _track_images_thread: the recognizer predicts the label, the gate looks
\* str(id) up
Reg_predict ==
  /\ app.reg.step = "trained"
  /\ app' = [app EXCEPT !.reg.step = "lookup", !.reg.key = str_chars(app.reg.label)]
  /\ UNCHANGED <<txn, disk>>
  /\ RegUnchanged

Reg_get_student_name ==
  /\ app.reg.step = "lookup"
  /\ \E o \in _get_student_name(disk, app.reg.key, FALSE) :
       app' = [app EXCEPT !.reg.step = IF Truthy(o.result) THEN "found" ELSE "absent"]
  /\ UNCHANGED <<txn, disk>>
  /\ RegUnchanged

InitIds ==
  /\ db_queue = <<>>
  /\ result_queue = <<>>
  /\ worker = "starting"
  /\ conn = "none"
  /\ txn = EmptyDb
  /\ disk = EmptyDb
  /\ now = [date |-> 1, time |-> 0]
  /\ pc = [t \in Threads |-> "idle"]
  /\ cur = [t \in Threads |-> 0]
  /\ hist = <<>>
  /\ applied = <<>>
  /\ faults = 0
  /\ closes = [t \in Threads |-> [issued |-> 0, returned |-> 0]]
  /\ \E entry \in Entries : app = [AppInit EXCEPT !.reg = [NoReg EXCEPT !.step = "typed", !.entry = entry]]
  /\ retired = <<>>

NextIds ==
  \/ Reg_take_images
  \/ Reg_capture_images
  \/ Reg_get_images_and_labels
  \/ Reg_predict
  \/ Reg_get_student_name

SpecIds == InitIds /\ [][NextIds]_vars

\* ------------------------------------------------------------- the claims
Issued == 1..Len(hist)
\* the execute call of request r has returned or raised
Completed(r) == hist[r].got_rid # 0
Executed(r) == \E k \in 1..Len(applied) : applied[k] = r
Pos(r) == CHOOSE k \in 1..Len(applied) : applied[k] = r

\* C1: every execute call returns or raises the result the worker produced
\* for its own request, never the one produced for another thread's request
C1_OwnResult ==
  \A r \in Issued : Completed(r) => hist[r].got_rid = r

\* C2: requests are applied in exactly the order of their db_queue.put, over
\* all producers: the k-th request applied is the k-th request put, none is
\* applied before it was issued, and a thread's calls are applied in its call order
C2_AppliedInPutOrder ==
  /\ \A k \in 1..Len(applied) : applied[k] = k /\ applied[k] \in Issued
  /\ \A j, k \in 1..Len(applied) :
       (j < k /\ hist[applied[j]].thread = hist[applied[k]].thread) => applied[j] < applied[k]

\* requests of both threads were in the queue together and have been applied
C2_Witness ==
  \E r \in Issued : /\ r > 1
                    /\ hist[r].ahead >= 1
                    /\ hist[r].thread # hist[r - 1].thread
                    /\ Executed(r)
\* the value an execute call handed to its caller
ReturnedBool(r, b) == Completed(r) /\ hist[r].got.kind = "bool" /\ hist[r].got.b = b
AddCalls(i) == {r \in Issued : hist[r].req.method = "add_student" /\ hist[r].req.student_id = i}

\* C3: of the add_student calls with one id on a store without that id, issued
\* by any number of threads, at most one returns true; once all of them have
\* been executed (no statement raising) and have returned, exactly one has
\* returned true, the others false, and one row with the id exists
C3_OneAddSucceeds ==
  \A i \in Ids :
    /\ Cardinality({r \in AddCalls(i) : ReturnedBool(r, TRUE)}) <= 1
    /\ (AddCalls(i) # {} /\ \A r \in AddCalls(i) : Completed(r) /\ Executed(r) /\ hist[r].failed = "no")
         => /\ Cardinality({r \in AddCalls(i) : ReturnedBool(r, TRUE)}) = 1
            /\ \A r \in AddCalls(i) : ReturnedBool(r, TRUE) \/ ReturnedBool(r, FALSE)
            /\ Cardinality({row \in txn.students : row.id = i}) = 1

\* C4: in the committed store and in the store as the connection sees it there
\* is at most one attendance row for each pair of identity id and date
OneRowPerDay(attendance) ==
  \A j, k \in 1..Len(attendance) :
    (attendance[j].id = attendance[k].id /\ attendance[j].date = attendance[k].date) => j = k

Marks(i) == {r \in Issued : Executed(r) /\ hist[r].req.method = "mark_attendance" /\ hist[r].req.student_id = i}

\* C5: once _mark_attendance has returned true for X on date D, every later
\* _mark_attendance for X executed on date D inserts no row and returns false
\* (unless its SELECT raises), and the first one executed on date D+1 returns
\* true and inserts one row (unless one of its statements raises)
C5_DailyDedup ==
  \A i \in Ids : \A r1, r2 \in Marks(i) :
    (Pos(r1) < Pos(r2) /\ hist[r1].out = RBool(TRUE)) =>
      /\ hist[r2].date = hist[r1].date =>
           /\ hist[r2].ins = 0
           /\ hist[r2].out # RBool(TRUE)
           /\ hist[r2].failed = "no" => hist[r2].out = RBool(FALSE)
      /\ ( /\ hist[r2].date = hist[r1].date + 1
           /\ hist[r2].failed = "no"
           /\ \A q \in Marks(i) : Pos(q) < Pos(r2) => hist[q].date # hist[r2].date )
           => hist[r2].out = RBool(TRUE) /\ hist[r2].ins = 1

\* X was marked on D, turned down later on D and marked again on D+1
C5_Witness ==
  \E i \in Ids : \E r1, r2, r3 \in Marks(i) :
    /\ Pos(r1) < Pos(r2) /\ Pos(r2) < Pos(r3)
    /\ hist[r1].out = RBool(TRUE) /\ hist[r2].out = RBool(FALSE) /\ hist[r3].out = RBool(TRUE)
    /\ hist[r2].date = hist[r1].date /\ hist[r3].date = hist[r1].date + 1

\* C6: no write of a request whose handler raised is ever committed
C6_FailedWritesNeverCommitted ==
  \A k \in 1..Len(disk.attendance) : hist[disk.attendance[k].rid].failed # "handler"

\* C7: an execute call with an unknown method raises to its caller an error
\* naming the method, the worker leaves the store as it was and stays alive
C7_UnknownMethod ==
  /\ [](\A r \in Issued : (Completed(r) /\ hist[r].req.method \notin Methods)
                           => hist[r].raised /\ hist[r].got = RExc(hist[r].req.method))
  /\ [][(worker = "running" /\ db_queue # <<>> /\ Head(db_queue).method \notin (Methods \cup {"STOP"})
          /\ db_queue' = Tail(db_queue))
        => (txn' = txn /\ worker' = "running")]_vars

\* C8: after a request whose handler failed the worker keeps running, and every
\* request enqueued after it is answered with its own result
C8_FailureIsolated ==
  \A f \in Issued : hist[f].failed = "handler" =>
    /\ worker = "running"
    /\ \A r \in Issued : (r > f /\ Completed(r)) => hist[r].got_rid = r

\* C9: execute raises exactly when the worker put an exception for that
\* request on result_queue, and otherwise returns the value its handler returned
C9_RaiseIffOwnFailure ==
  \A r \in Issued : Completed(r) =>
    /\ hist[r].out # Pending
    /\ hist[r].raised <=> IsException(hist[r].out)
    /\ ~hist[r].raised => hist[r].got = hist[r].out

\* C10: in every state where a close() call has returned, the worker thread
\* has ended and its connection is closed
C10_CloseWaitsForWorker ==
  \A t \in Threads : closes[t].returned > 0 => (worker = "dead" /\ conn = "closed")

\* close() has returned after the worker executed a request and took the sentinel
C10_Witness ==
  /\ \E t \in Threads : closes[t].returned > 0
  /\ Len(applied) > 0
\* C11: db_queue is FIFO up to the sentinel. Once the worker has ended, every
\* request put before the first 'STOP' has been executed and its result put on
\* result_queue; a request put after a 'STOP' is never executed.
C11_FifoUpToStop ==
  /\ \A r \in Issued : hist[r].stops > 0 => ~Executed(r) /\ hist[r].out = Pending
  /\ worker = "dead" =>
       \A r \in Issued : hist[r].stops = 0 => Executed(r) /\ hist[r].out # Pending

\* the worker has ended with a request put before the 'STOP' and one put after
C11_Witness ==
  /\ worker = "dead"
  /\ \E r \in Issued : hist[r].stops = 0 /\ Executed(r)
  /\ \E r \in Issued : hist[r].stops > 0 /\ ~Executed(r)

\* the operation executed last raised in its handler
LastFailed == Len(applied) > 0 /\ hist[applied[Len(applied)]].failed = "handler"

\* C12: a close() that has put its 'STOP' returns, with the worker ended and
\* the connection closed, whatever the operations executed before it did, a
\* handler that raised included
C12_CloseTerminates ==
  \A t \in Threads :
    (pc[t] = "joining") ~> (pc[t] = "idle" /\ worker = "dead" /\ conn = "closed")

\* a close() has returned although the last operation executed had raised
C12_Witness ==
  /\ LastFailed
  /\ worker = "dead"
  /\ \E t \in Threads : closes[t].returned > 0

\* C13: a close() called when a close() of the same instance has returned
\* returns too: its 'STOP' stays on db_queue and its join finds the thread ended
C13_SecondCloseReturns ==
  \A t \in Threads :
    (pc[t] = "joining" /\ \E u \in Threads : closes[u].returned > 0) ~> (pc[t] = "idle")

\* a thread has called close() twice and both calls have returned
C13_Witness ==
  \E t \in Threads : closes[t].returned = 2 /\ pc[t] = "idle"

\* C14: no request is put on db_queue of an instance after a close() has put
\* its 'STOP' there
C14_NoPutAfterClose ==
  \A r \in Issued : hist[r].stops = 0

\* a thread is inside execute on an instance whose worker has ended, with no
\* result left for it to take: nothing will ever be put on that result_queue
\* (and the process is not on its way out through quit_window)
Stuck(t) ==
  /\ app.ui \notin {"quit_join", "quit_close", "exited"}
  /\ pc[t] = "waiting"
  /\ \/ app.ref[t] = app.db /\ worker = "dead" /\ result_queue = <<>>
     \/ app.ref[t] < app.db /\ retired[app.ref[t]] = <<>>

\* C15: no thread of the application is ever in an execute call that cannot
\* return or raise any more (nor, therefore, holds db_lock for ever)
C15_NoCallBlocksForever ==
  \A t \in Threads : ~Stuck(t)

\* C16: when an execute call returns a result (does not raise), the worker has
\* executed the caller's request without a failure and committed it: the
\* student an add_student call asked for is in the committed database
C16_ResultAfterCommit ==
  \A r \in Issued :
    (Completed(r) /\ ~hist[r].raised) =>
      /\ Executed(r)
      /\ hist[r].failed = "no"
      /\ hist[r].req.method = "add_student" =>
           \E row \in disk.students : row.id = hist[r].req.student_id

\* the request the worker executes in this step, if it executes one
Executing == Len(applied') > Len(applied)
Last == applied'[Len(applied')]

\* C17: add_student returns true and inserts the row exactly when the id is
\* absent, and changes nothing when it returns false; no step changes the id,
\* the name or the registration date of a student, and ids stay unique
C17_AddStudentOnlyWhenAbsent ==
  [][/\ (Executing /\ hist[Last].req.method = "add_student" /\ hist'[Last].failed = "no") =>
         LET req == hist[Last].req
             absent == ~\E row \in disk.students : row.id = req.student_id
         IN  /\ hist'[Last].out = RBool(absent)
             /\ absent => disk'.students = disk.students \cup {StudentRow(req.student_id, req.name, now, Null)}
             /\ ~absent => disk'.students = disk.students
      /\ \A row \in disk.students : \E kept \in disk'.students :
           kept.id = row.id /\ kept.name = row.name /\ kept.registration_date = row.registration_date
      /\ \A a, b \in disk'.students : a.id = b.id => a = b]_vars

\* an id registered as Ada on one day was refused as Bob on a later day, and
\* another id was registered
C17_Witness ==
  /\ \E r \in Issued : /\ hist[r].req.name = "Bob" /\ hist[r].req.student_id = "101"
                        /\ hist[r].out = RBool(FALSE) /\ hist[r].date > 1
  /\ \E row \in disk.students : row.id = "101" /\ row.name = "Ada" /\ row.registration_date.date = 1
  /\ \E row \in disk.students : row.id = "102"

\* C18: on the database as the connection sees it, a mark_attendance that
\* returns True has appended one event for the id and set the last_attendance
\* of the student with that id to the date and time of that event; one that
\* returns False has changed neither the attendance table nor any student row
C18_LastAttendanceIsTheEvent ==
  [][(Executing /\ hist[Last].req.method = "mark_attendance" /\ hist'[Last].failed = "no") =>
       LET req == hist[Last].req
           out == hist'[Last].out
           n == Len(txn'.attendance)
       IN  /\ out \in {RBool(TRUE), RBool(FALSE)}
           /\ out = RBool(TRUE) =>
                /\ n = Len(txn.attendance) + 1
                /\ SubSeq(txn'.attendance, 1, n - 1) = txn.attendance
                /\ txn'.attendance[n].id = req.student_id
                /\ \A row \in txn'.students : row.id = req.student_id =>
                     row.last_attendance = Stamp(txn'.attendance[n].date, txn'.attendance[n].time)
           /\ out = RBool(FALSE) =>
                /\ txn'.attendance = txn.attendance
                /\ txn'.students = txn.students]_vars

\* the registered student was marked on the second day, which is her
\* last_attendance, and a repeated mark was refused
C18_Witness ==
  /\ \E r \in Issued : /\ hist[r].req.method = "mark_attendance" /\ hist[r].req.student_id = "101"
                        /\ hist[r].out = RBool(TRUE) /\ hist[r].date = 2
  /\ \E row \in txn.students : row.id = "101" /\ row.last_attendance = Stamp(2, 0)
  /\ \E r \in Issued : hist[r].req.method = "mark_attendance" /\ hist[r].out = RBool(FALSE)

\* C19: every committed attendance row carries the id of a row of students
C19_AttendanceIdsAreStudents ==
  \A k \in 1..Len(disk.attendance) :
    \E row \in disk.students : row.id = disk.attendance[k].id

IsPrefix(a, b) == Len(a) <= Len(b) /\ SubSeq(b, 1, Len(a)) = a

\* C20: no step of any Facade operation removes or changes a committed
\* attendance row: the committed table after a step is the table before it,
\* possibly with rows appended
C20_AttendanceAppendOnly ==
  [][IsPrefix(disk.attendance, disk'.attendance)]_vars

\* an attendance row was committed and another operation was executed after it
C20_Witness ==
  /\ Len(applied) = 2
  /\ hist[applied[1]].req.method = "mark_attendance"
  /\ hist[applied[1]].out = RBool(TRUE)
  /\ hist[applied[2]].failed = "no"
  /\ Len(disk.attendance) = 1
  /\ disk.attendance[1].rid = applied[1]

UniqueUsernames(admin) == \A a, b \in admin : a.username = b.username => a = b

\* C21: once the worker has started, the admin table, committed and as the
\* connection sees it, holds at least one row and no two rows with one username
C21_AdminTableNeverEmpty ==
  conn # "none" =>
    /\ disk.admin # {} /\ UniqueUsernames(disk.admin)
    /\ txn.admin # {} /\ UniqueUsernames(txn.admin)

\* a password change was applied and a login was checked after it
C21_Witness ==
  /\ \E r \in Issued : hist[r].req.method = "change_admin_password" /\ hist[r].out = RBool(TRUE)
  /\ Len(applied) >= 2
  /\ hist[applied[Len(applied)]].req.method = "verify_admin"
  /\ disk.admin = {AdminRow("admin", "secret")}

\* C22: the startup of a worker inserts admin/admin123 when the admin table
\* is empty and leaves the table as it is otherwise, so a changed password
\* survives a new run and the default password stays invalid
C22_SeedOnlyWhenEmpty ==
  [][(worker = "starting" /\ worker' = "running") =>
       disk'.admin = IF disk.admin = {} THEN {AdminRow("admin", "admin123")} ELSE disk.admin]_vars

\* after a password change, a close() and a new run, the changed password is
\* in place and a login with the default password was refused
C22_Witness ==
  /\ app.db = 2
  /\ worker = "running"
  /\ disk.admin = {AdminRow("admin", "secret")}
  /\ \E r \in Issued : /\ hist[r].db = 2
                        /\ hist[r].req.method = "verify_admin"
                        /\ hist[r].req.password = "admin123"
                        /\ hist[r].out = RBool(FALSE)

Passwords == {"admin123", "secret", "guess"}

\* what verify_admin answers on the database db
Verifies(db, username, password) ==
  _verify_admin(db, username, password, FALSE) = {Outcome(db, RBool(TRUE), FALSE)}

\* C23: change_admin_password(u, p) returns True exactly when a row for u
\* exists; then verify_admin(u, p) holds and verify_admin(u, q) fails for every
\* other q, on the committed database and as the connection sees it; when it
\* returns False the admin table is unchanged
C23_ChangePassword ==
  [][(Executing /\ hist[Last].req.method = "change_admin_password" /\ hist'[Last].failed = "no") =>
       LET u == hist[Last].req.username
           p == hist[Last].req.password
           out == hist'[Last].out
       IN  /\ out = RBool(\E row \in txn.admin : row.username = u)
           /\ out = RBool(TRUE) =>
                /\ Verifies(txn', u, p) /\ Verifies(disk', u, p)
                /\ \A q \in Passwords \ {p} : ~Verifies(txn', u, q) /\ ~Verifies(disk', u, q)
           /\ out = RBool(FALSE) =>
                txn'.admin = txn.admin /\ disk'.admin = disk.admin]_vars

\* the password of admin was changed, the old password was refused afterwards
\* and a change for a username that has no row returned False
C23_Witness ==
  /\ Len(applied) = 3
  /\ hist[applied[1]].req = Req("change_admin_password", NoStr, NoStr, NoDate, "admin", "secret")
  /\ hist[applied[1]].out = RBool(TRUE)
  /\ hist[applied[2]].req = Req("verify_admin", NoStr, NoStr, NoDate, "admin", "admin123")
  /\ hist[applied[2]].out = RBool(FALSE)
  /\ hist[applied[3]].req.username = "root"
  /\ hist[applied[3]].out = RBool(FALSE)

\* C24: the committed password of a username changes only in the step that
\* executes a change_admin_password request for that username, put on the
\* instance on which the same thread had passed verify_admin for it before
C24_PasswordChangeIsAuthenticated ==
  [][\A old \in disk.admin, new \in disk'.admin :
       (old.username = new.username /\ old.password # new.password) =>
         /\ Executing
         /\ hist[Last].req.method = "change_admin_password"
         /\ hist[Last].req.username = old.username
         /\ \E r \in Issued :
              /\ r < Last
              /\ hist[r].thread = hist[Last].thread
              /\ hist[r].req.method = "verify_admin"
              /\ hist[r].req.username = old.username
              /\ hist[r].got = RBool(TRUE)
              /\ hist[r].db = hist[Last].db]_vars

\* the label is the id of a student of the store
Registered(id) == \E r \in disk.students : r.id = str(id)
\* the step puts a mark_attendance request on db_queue
PutsMark == Len(hist') > Len(hist) /\ hist'[Len(hist')].req.method = "mark_attendance"
\* the lookup of the accepted face returns its answer in this step
LookupReturns ==
  \/ app.rec = "get_student_name" /\ app'.rec # "get_student_name"
  \/ app.mon[REC] = "get_student_by_id" /\ app'.mon[REC] # "get_student_by_id"
AlreadyInDedupSet ==
  \/ app.program = "attendence" /\ app.seen.id \in app.attendance_marked
  \/ app.program = "main" /\ str(app.seen.id) \in Range(app.attendance_sessions)
GoesToMark == app'.rec = "mark_attendance" \/ app'.mon[REC] = "mark_attendance"

\* C25: in daily mode and in session mode alike, a recognition (id, distance)
\* of a registered id is archived exactly when the distance is above 75, a
\* mark_attendance request is put only for a distance below 50, and a
\* distance below 50 whose lookup succeeds for an id not yet in the dedup set
\* goes on to the mark_attendance call.
C25_ConfidenceGating ==
  [][/\ Registered(app'.seen.id) => (app'.seen.archived <=> app'.seen.confidence > 75)
     /\ PutsMark => app.seen.confidence < 50 /\ ~app.seen.archived
     /\ (LookupReturns /\ Registered(app.seen.id) /\ ~AlreadyInDedupSet /\ ~IsException(Answer(REC)))
          => GoesToMark]_vars

\* thread t is on its way through the while loop of _monitor_class_attendance
Sampling(t) ==
  app.mon[t] \in {"loop", "frame", "get_student_by_id", "mark_attendance", "mark_attendance_wait"}
\* monitor thread t has passed the test on attendance_sessions and calls
\* mark_attendance for its face
GateCallsMark(t) == app.mon[t] \in {"mark_attendance", "mark_attendance_wait"}
\* the q-th execution of the worker is a mark_attendance in which no
\* statement raised
MarkExecuted(q) ==
  hist[applied[q]].req.method = "mark_attendance" /\ hist[applied[q]].failed = "no"
\* an earlier execution was a mark_attendance of the same student on the same
\* date and returned True
MarkedBefore(q) ==
  \E r \in 1..(q - 1) :
    /\ hist[applied[r]].req.method = "mark_attendance"
    /\ hist[applied[r]].req.student_id = hist[applied[q]].req.student_id
    /\ hist[applied[r]].date = hist[applied[q]].date
    /\ hist[applied[r]].out = RBool(TRUE)

\* C26: a face recognised while its student is in attendance_sessions of the
\* session that still runs never gets a mark_attendance call from the
\* gate; and a mark_attendance that the worker executes after one that
\* returned True for the same student and date returns False (unless a
\* statement raises).
C26_SessionDedup ==
  /\ \A t \in Threads :
       GateCallsMark(t) => ~(app.face[t].marked /\ app.face[t].session = app.session)
  /\ \A q \in 1..Len(applied) :
       (MarkExecuted(q) /\ MarkedBefore(q)) => hist[applied[q]].out = RBool(FALSE)

\* the gate has marked 101 in the session that runs, a later recognition of
\* 101 came back from its lookup without a mark_attendance call
C26_Witness ==
  /\ app.class_in_session
  /\ "101" \in Range(app.attendance_sessions)
  /\ \E t \in Threads :
       /\ app.face[t].marked
       /\ app.face[t].session = app.session
       /\ app.mon[t] = "loop"
  /\ Len(hist) = 3
  /\ hist[3].req.method = "get_student_by_id"
  /\ hist[3].got_rid = 3

\* C27: at most one thread is in the sampling loop of
\* _monitor_class_attendance, whatever the presses of the session button.
C27_OneSamplingLoop == Cardinality({t \in Threads : Sampling(t)}) <= 1

\* the connections that are open: the one of the instance self.db refers
\* to, and those of replaced instances that were never closed
OpenConnections == (IF conn = "open" THEN 1 ELSE 0) + app.orphans

\* C28: at most one connection to the store is open at any time, through
\* construction, reset_system and quit_window: a new instance opens its
\* connection only after the connection of the instance before it was closed.
C28_OneOpenConnection == OpenConnections <= 1

\* reset_system has replaced the instance and the new worker has opened its
\* connection
C28_Witness == app.db = 2 /\ conn = "open" /\ worker = "running"

\* the six calls of the scenario have returned, all were put and executed on
\* day 1 and no statement raised in them
ScenarioPlayed ==
  /\ Len(hist) >= 6
  /\ \A i \in 1..6 :
       /\ Completed(i)
       /\ hist[i].date = 1
       /\ hist[i].failed = "no"
       /\ hist[i].req.date \in {NoDate, 1}

\* C29: on an empty store and within one day, add_student(101, Ada) twice,
\* mark_attendance(101, Ada), get_attendance_records(today),
\* mark_attendance(101, Ada), get_attendance_records(today) return True,
\* False, True, the one row (101, Ada, today, t), False and that same row.
C29_Scenario ==
  ScenarioPlayed =>
    /\ hist[1].got = RBool(TRUE)
    /\ hist[2].got = RBool(FALSE)
    /\ hist[3].got = RBool(TRUE)
    /\ hist[4].got.kind = "rows"
    /\ Len(hist[4].got.rows) = 1
    /\ \E t \in 0..MaxTime : hist[4].got.rows[1] = <<"101", "Ada", 1, t>>
    /\ hist[5].got = RBool(FALSE)
    /\ hist[6].got = hist[4].got

C29_Witness == ScenarioPlayed /\ Len(hist) = 6 /\ Len(hist[6].got.rows) = 1

\* rows lists, each once, the rows of attendance on date d (all of them when
\* d is None), later times first, and without a date later dates first
ListsRecords(rows, attendance, d) ==
  LET sel == {k \in 1..Len(attendance) : d = NoDate \/ attendance[k].date = d}
  IN  /\ Len(rows) = Cardinality(sel)
      /\ \E f \in [1..Len(rows) -> sel] :
           /\ \A a, b \in 1..Len(rows) : a # b => f[a] # f[b]
           /\ \A a \in 1..Len(rows) :
                rows[a] = <<attendance[f[a]].id, attendance[f[a]].name,
                            attendance[f[a]].date, attendance[f[a]].time>>
      /\ \A a, b \in 1..Len(rows) :
           a < b => IF d # NoDate THEN rows[a][4] >= rows[b][4]
                    ELSE rows[a][3] > rows[b][3] \/ (rows[a][3] = rows[b][3] /\ rows[a][4] >= rows[b][4])

\* C30: get_attendance_records(d) returns exactly the attendance rows of date
\* d that are committed when it returns, ordered by time descending; without
\* a date it returns all committed rows, by date descending and then time
\* descending.
C30_RecordsFilteredAndOrdered ==
  [][(Executing /\ hist'[Last].req.method = "get_attendance_records" /\ hist'[Last].failed = "no")
       => /\ hist'[Last].out.kind = "rows"
          /\ ListsRecords(hist'[Last].out.rows, disk'.attendance, hist'[Last].req.date)]_vars

\* a mark on day 2, then a list without a date that returned all three rows,
\* then a list of day 1 that returned its two rows, the later one first
C30_Witness ==
  /\ Len(hist) = 3
  /\ hist[2].req.method = "get_attendance_records"
  /\ hist[2].req.date = NoDate
  /\ hist[2].failed = "no"
  /\ hist[2].got_rid = 2
  /\ Len(hist[2].got.rows) = 3
  /\ hist[3].req.method = "get_attendance_records"
  /\ hist[3].req.date = 1
  /\ hist[3].got_rid = 3
  /\ hist[3].got = RRows(<<(<<"102", "Bob", 1, 1>>), (<<"101", "Ada", 1, 0>>)>>)

\* the requests whose execute call has not returned
Outstanding == {r \in Issued : ~Completed(r)}

\* C31: with every execute call made under db_lock, at most one request is
\* outstanding, result_queue holds at most one item, and every caller gets
\* the result of its own request.
C31_LockSerialisesCalls ==
  /\ Cardinality(Outstanding) <= 1
  /\ Len(result_queue) <= 1
  /\ \A r \in Issued : Completed(r) => hist[r].got_rid = r

\* the recognition thread waits for its answer under the lock while the UI
\* thread, which has had an answer before, is about to call
C31_Witness ==
  /\ \E r \in Outstanding : hist[r].thread = REC
  /\ app.db_lock = REC
  /\ app.ui = "refresh_attendance"
  /\ \E r \in Issued : Completed(r) /\ hist[r].thread = UI

\* the capture thread reads the camera; the recognition thread reads it from
\* its start to its finally:
CaptureLoop == app.cap = "loop"
RecognitionLoop == app.rec # "off"

\* C38: the capture thread and the recognition thread never run their camera
\* loops at the same time, and camera_active is false whenever neither
\* thread runs (a thread runs from its start to its finally:).
C38_CameraMutualExclusion ==
  /\ ~(CaptureLoop /\ RecognitionLoop)
  /\ ~(app.cap # "off" /\ app.rec # "off")
  /\ (app.cap = "off" /\ app.rec = "off") => ~app.camera_active

\* a registration has run to its end and the recognition thread now has the
\* camera
C38_Witness ==
  /\ RecognitionLoop
  /\ app.cap = "off"
  /\ app.camera_active
  /\ \E r \in Issued : hist[r].req.method = "add_student" /\ Completed(r)

\* class_in_session goes from true to false in this step
SessionEnds == app.class_in_session /\ ~app'.class_in_session
\* the step is a press of the session button
Pressed == app'.mon = app.mon /\ app'.class_in_session # app.class_in_session
\* the step is the clean-up of the loop that was started for the session
\* that runs
OwnLoopCleansUp ==
  \E t \in Threads :
    app.mon[t] = "cleanup" /\ app'.mon[t] = "off" /\ app.started[t] = app.session

\* C32: a session ends only by a press of the session button or when the
\* loop started for it leaves its while loop; a loop left over from an
\* earlier session never ends it.
C32_SessionEndsByStopOrDeadline ==
  [][SessionEnds => (Pressed \/ OwnLoopCleansUp)]_vars

\* C33: whenever class_in_session is true a monitoring thread is alive; in
\* particular a thread that finds no camera or no cascade leaves the session
\* Idle.
C33_RunningHasLoop ==
  app.class_in_session => \E t \in Threads : app.mon[t] # "off"

\* C34: the gate calls mark_attendance for an id at most once in a
\* recognition run or class session: once it has had an answer for the id,
\* True or False, it does not call again.
C34_OneMarkCallPerRun ==
  /\ app.rec \in {"mark_attendance", "mark_attendance_wait"} => str(app.id) \notin app.answered
  /\ \A t \in Threads : GateCallsMark(t) => app.student[t][1] \notin app.answered

\* C35: every id in the dedup set of the gate (attendance_marked of the
\* recognition run, attendance_sessions of the class session) has a
\* committed attendance row in the store, also when reset_system replaces
\* the store while the run is active.
HasCommittedRow(student_id) ==
  \E i \in 1..Len(disk.attendance) : disk.attendance[i].id = student_id

C35_DedupSetHasRows ==
  /\ \A id \in app.attendance_marked : HasCommittedRow(str(id))
  /\ \A student_id \in Range(app.attendance_sessions) : HasCommittedRow(student_id)

\* C37: when the lookup of a recognised id returns None the gate sends no
\* mark_attendance request: every mark_attendance request of the gate, and
\* every attendance row in the store, is for a registered id.
LookupFound(i) ==
  \E j \in 1..(i - 1) :
    /\ hist[j].req.method \in {"get_student_name", "get_student_by_id"}
    /\ hist[j].req.student_id = hist[i].req.student_id
    /\ hist[j].thread = hist[i].thread
    /\ Truthy(hist[j].got)

C36_SessionCountsDistinct ==
  Len(app.attendance_sessions) = Cardinality(Range(app.attendance_sessions))

\* C39: for every id that registration accepts, the key the gate looks up,
\* str() of the label of the recognizer, is the id that was stored, so the
\* lookup finds the student.
C39_KeyIsRegisteredId ==
  /\ app.reg.step \in {"lookup", "found", "absent"} => app.reg.key = app.reg.student_id
  /\ app.reg.step # "absent"
====
